---- MODULE Spec2Model ----
(***************************************************************************)
(* A model of the STRIDE GPT MCP server (api/index.py): the payload guard, *)
(* the error sanitizer, the eight tool handlers, the JSON-RPC dispatcher   *)
(* handle_mcp_request and the HTTP entry point handler.do_POST, together   *)
(* with the second copy of the guard kept in server/validation.py.         *)
(*                                                                         *)
(* JSON values are records [t, s, n, kids]:                                *)
(*   t    the JSON type: "null" "bool" "num" "str" "list" "dict"           *)
(*   s    the text of a scalar (what Python's str() works from)            *)
(*   n    len(): characters of a string, elements of a list, keys of a     *)
(*        dict; 0 for the other types                                      *)
(*   kids the leading elements of a list, or the leading entries           *)
(*        [k, klen, v] of a dict in insertion order. When n > Len(kids)    *)
(*        the remaining n - Len(kids) elements are null (for a dict: null  *)
(*        values under short keys), so a 2001-element array is one record. *)
(***************************************************************************)
EXTENDS Integers, Sequences, FiniteSets, TLC

VARIABLES
    pc,            \* position of the request being handled
    entry,         \* entry point: "none" "post" "direct" "guard" "sanitize"
    req,           \* the request as received: header, raw body, JSON value
    body,          \* <<v>> once json.loads returned v, else <<>>
    responses,     \* HTTP responses written by do_POST for this request
    ret,           \* envelopes returned by handle_mcp_request for this request
    raised,        \* exceptions that escaped handle_mcp_request
    invoked,       \* functions called as tool handlers for this request
    log,           \* what sanitize_error wrote to stderr for this request
    steps,         \* the do_POST steps this request went through, in order
    bytesRead,     \* bytes do_POST took from rfile for this request
    guardOut,      \* <<api result, server result, api walk, server walk>> of a direct guard call
    lastToolsList, \* <<tools>> of the latest tools/list result, else <<>>
    sanOut,        \* <<id, message>> results of direct sanitize_error calls
    memo,          \* <<call>>: an earlier tools/call kept for comparison, else <<>>
    binding,       \* what the module global get_stride_threat_framework is bound to
    parked         \* locals of the request the other thread is handling

vars == <<pc, entry, req, body, responses, ret, raised, invoked, log, steps,
          bytesRead, guardOut, lastToolsList, sanOut, memo, binding, parked>>

(***************************************************************************)
(* Program constants.                                                      *)
(***************************************************************************)
MAX_PAYLOAD_SIZE == 5242880
MAX_JSON_DEPTH == 20
MAX_OBJECT_KEYS == 500
MAX_ARRAY_LENGTH == 2000
MAX_STRING_LENGTH == 500000

INVALID_PARAMETER == -32603
TOOL_EXECUTION_FAILED == -32604
INTERNAL_ERROR == -32603
PAYLOAD_TOO_LARGE == -32600
PAYLOAD_TOO_COMPLEX == -32600
PARSE_ERROR == -32700
INVALID_REQUEST == -32600
METHOD_NOT_FOUND == -32601

\* server/validation.py takes PAYLOAD_LIMITS from server/constants.py
ServerLimits ==
    [MAX_JSON_DEPTH |-> MAX_JSON_DEPTH, MAX_OBJECT_KEYS |-> MAX_OBJECT_KEYS,
     MAX_ARRAY_LENGTH |-> MAX_ARRAY_LENGTH,
     MAX_STRING_LENGTH |-> MAX_STRING_LENGTH]

(***************************************************************************)
(* Bounds of the model.                                                    *)
(***************************************************************************)
\* nesting levels tried beyond MAX_JSON_DEPTH
MaxExtraDepth == 2
\* a limit is tried at limit - 1 .. limit + MaxOver
MaxOver == 1
\* number of distinct error ids uuid4 can draw
MaxErrorIds == 2
\* longest threat_model list given to a tool
MaxThreats == 2
\* sanitize_error calls one test makes in a row
MaxSanitizeCalls == 2

(***************************************************************************)
(* JSON values.                                                            *)
(***************************************************************************)
JNull == [t |-> "null", s |-> "null", n |-> 0, kids |-> <<>>]
JBool(b) == [t |-> "bool", s |-> IF b THEN "true" ELSE "false", n |-> 0, kids |-> <<>>]
JNum(digits) == [t |-> "num", s |-> digits, n |-> 0, kids |-> <<>>]
JStr(text, length) == [t |-> "str", s |-> text, n |-> length, kids |-> <<>>]
JList(items, length) == [t |-> "list", s |-> "[...]", n |-> length, kids |-> items]
JDict(entries, nkeys) == [t |-> "dict", s |-> "{...}", n |-> nkeys, kids |-> entries]
KV(key, keylen, value) == [k |-> key, klen |-> keylen, v |-> value]

\* len() of the strings the model names; a name not listed is a short one
StrLen(text) ==
    CASE text = "" -> 0
      [] text = "2.0" -> 3
      [] text = "1.0" -> 3
      [] text = "abc" -> 3
      [] text = "None" -> 4
      [] text = "bogus" -> 5
      [] text = "initialize" -> 10
      [] text = "tools/list" -> 10
      [] text = "tools/call" -> 10
      [] text = "2024-11-05" -> 10
      [] text = "2025-03-26" -> 10
      [] OTHER -> 8

Str(text) == JStr(text, StrLen(text))
List(items) == JList(items, Len(items))
\* a dict whose keys are all named; key lengths are short
Dict(entries) == JDict(entries, Len(entries))
K(key, value) == KV(key, StrLen(key), value)

\* dict.get(key, default)
RECURSIVE FindKey(_, _, _)
FindKey(entries, key, i) ==
    IF i > Len(entries) THEN 0
    ELSE IF entries[i].k = key THEN i
    ELSE FindKey(entries, key, i + 1)

HasKey(d, key) == FindKey(d.kids, key, 1) # 0
Get(d, key, default) ==
    IF HasKey(d, key) THEN d.kids[FindKey(d.kids, key, 1)].v ELSE default

\* str(v) as an f-string renders a value that json.loads produced
PyStr(v) ==
    CASE v.t = "null" -> "None"
      [] v.t = "bool" -> (IF v.s = "true" THEN "True" ELSE "False")
      [] OTHER -> v.s

\* bool(v): Python truthiness
Truthy(v) ==
    CASE v.t = "null" -> FALSE
      [] v.t = "bool" -> v.s = "true"
      [] v.t = "num" -> v.s # "0"
      [] OTHER -> v.n > 0

(***************************************************************************)
(* Payload guard, api/index.py.                                            *)
(***************************************************************************)
Valid == [valid |-> TRUE, error |-> <<>>]
Invalid(message) == [valid |-> FALSE, error |-> message]

DepthCheckMut(current_depth) == current_depth >= MAX_JSON_DEPTH
\* a depth check that lets one more level pass
DepthCheckDeepMut(current_depth) == current_depth > MAX_JSON_DEPTH + 1
DepthCheck(current_depth) == current_depth > MAX_JSON_DEPTH

KeyCheck(key_length) == key_length > MAX_STRING_LENGTH

RECURSIVE validate_json_complexity(_, _)
RECURSIVE ValidateItems(_, _, _)
RECURSIVE ValidateEntries(_, _, _)

\* the loop "for item in data" from element i on
ValidateItems(data, i, current_depth) ==
    IF i > Len(data.kids)
    THEN IF data.n > Len(data.kids)
         THEN validate_json_complexity(JNull, current_depth + 1)
         ELSE Valid
    ELSE LET result == validate_json_complexity(data.kids[i], current_depth + 1)
         IN  IF ~result.valid THEN result
             ELSE ValidateItems(data, i + 1, current_depth)

\* the loop "for key, value in data.items()" from entry i on
ValidateEntries(data, i, current_depth) ==
    IF i > Len(data.kids)
    THEN IF data.n > Len(data.kids)
         THEN validate_json_complexity(JNull, current_depth + 1)
         ELSE Valid
    ELSE IF KeyCheck(data.kids[i].klen)
    THEN Invalid(<<"Object key length exceeds maximum of ",
                   ToString(MAX_STRING_LENGTH)>>)
    ELSE LET result == validate_json_complexity(data.kids[i].v, current_depth + 1)
         IN  IF ~result.valid THEN result
             ELSE ValidateEntries(data, i + 1, current_depth)

validate_json_complexity(data, current_depth) ==
    IF DepthCheck(current_depth)
    THEN Invalid(<<"JSON nesting depth exceeds maximum of ",
                   ToString(MAX_JSON_DEPTH)>>)
    ELSE CASE data.t = "dict" ->
                IF data.n > MAX_OBJECT_KEYS
                THEN Invalid(<<"Object contains ", ToString(data.n),
                               " keys, exceeds maximum of ",
                               ToString(MAX_OBJECT_KEYS)>>)
                ELSE ValidateEntries(data, 1, current_depth)
           [] data.t = "list" ->
                IF data.n > MAX_ARRAY_LENGTH
                THEN Invalid(<<"Array length ", ToString(data.n),
                               " exceeds maximum of ",
                               ToString(MAX_ARRAY_LENGTH)>>)
                ELSE ValidateItems(data, 1, current_depth)
           [] data.t = "str" ->
                IF data.n > MAX_STRING_LENGTH
                THEN Invalid(<<"String length ", ToString(data.n),
                               " exceeds maximum of ",
                               ToString(MAX_STRING_LENGTH)>>)
                ELSE Valid
           [] OTHER -> Valid

(***************************************************************************)
(* Payload guard, server/validation.py.                                    *)
(***************************************************************************)
RECURSIVE server_validate_json_complexity(_, _)
RECURSIVE ServerValidateKids(_, _, _)

\* both loops, "for v in data.values()" and "for i in data", from child i on
ServerValidateKids(data, i, depth) ==
    IF i > Len(data.kids)
    THEN IF data.n > Len(data.kids)
         THEN server_validate_json_complexity(JNull, depth + 1)
         ELSE Valid
    ELSE LET child == IF data.t = "dict" THEN data.kids[i].v ELSE data.kids[i]
             r == server_validate_json_complexity(child, depth + 1)
         IN  IF ~r.valid THEN r ELSE ServerValidateKids(data, i + 1, depth)

server_validate_json_complexity(data, depth) ==
    IF depth > ServerLimits.MAX_JSON_DEPTH
    THEN Invalid(<<"JSON depth exceeded">>)
    ELSE CASE data.t = "dict" ->
                IF data.n > ServerLimits.MAX_OBJECT_KEYS
                THEN Invalid(<<"Too many object keys">>)
                ELSE ServerValidateKids(data, 1, depth)
           [] data.t = "list" ->
                IF data.n > ServerLimits.MAX_ARRAY_LENGTH
                THEN Invalid(<<"Array too large">>)
                ELSE ServerValidateKids(data, 1, depth)
           [] data.t = "str" ->
                IF data.n > ServerLimits.MAX_STRING_LENGTH
                THEN Invalid(<<"String too long">>)
                ELSE Valid
           [] OTHER -> Valid

(***************************************************************************)
(* The calls of the payload guard. A walk is the result of a call with the *)
(* calls it made, itself first: for each call its depth, whether it went   *)
(* on to look at its value, whether it entered the loop over the children  *)
(* of the value, the type and size of the value, and how many consecutive  *)
(* calls of this kind the entry stands for.                                *)
(***************************************************************************)
Call(depth, inspected, expanded, data, times) ==
    [depth |-> depth, inspected |-> inspected, expanded |-> expanded,
     type |-> data.t, size |-> data.n, times |-> times]

Walked(valid, calls) == [valid |-> valid, calls |-> calls]

\* the calls for the children of data that are not written out, all null
TailWalk(data, walk) ==
    Walked(walk.valid,
           <<[walk.calls[1] EXCEPT
                 !.times = IF walk.valid THEN data.n - Len(data.kids) ELSE 1]>>)

RECURSIVE GuardWalk(_, _)
RECURSIVE WalkKids(_, _, _)

\* the loops of api/index.py from child i on
WalkKids(data, i, current_depth) ==
    IF i > Len(data.kids)
    THEN IF data.n > Len(data.kids)
         THEN TailWalk(data, GuardWalk(JNull, current_depth + 1))
         ELSE Walked(TRUE, <<>>)
    ELSE IF data.t = "dict" /\ KeyCheck(data.kids[i].klen)
    THEN Walked(FALSE, <<>>)
    ELSE LET result == GuardWalk(IF data.t = "dict" THEN data.kids[i].v
                                 ELSE data.kids[i], current_depth + 1)
         IN  IF ~result.valid THEN result
             ELSE LET rest == WalkKids(data, i + 1, current_depth)
                  IN  Walked(rest.valid, result.calls \o rest.calls)

\* validate_json_complexity of api/index.py with the calls it makes
GuardWalk(data, current_depth) ==
    IF DepthCheck(current_depth)
    THEN Walked(FALSE, <<Call(current_depth, FALSE, FALSE, data, 1)>>)
    ELSE CASE data.t = "dict" /\ data.n > MAX_OBJECT_KEYS ->
                Walked(FALSE, <<Call(current_depth, TRUE, FALSE, data, 1)>>)
           [] data.t = "list" /\ data.n > MAX_ARRAY_LENGTH ->
                Walked(FALSE, <<Call(current_depth, TRUE, FALSE, data, 1)>>)
           [] data.t = "str" ->
                Walked(data.n <= MAX_STRING_LENGTH,
                       <<Call(current_depth, TRUE, FALSE, data, 1)>>)
           [] data.t \in {"dict", "list"} ->
                LET kids == WalkKids(data, 1, current_depth)
                IN  Walked(kids.valid,
                           <<Call(current_depth, TRUE, TRUE, data, 1)>> \o kids.calls)
           [] OTHER -> Walked(TRUE, <<Call(current_depth, TRUE, FALSE, data, 1)>>)

RECURSIVE ServerWalk(_, _)
RECURSIVE ServerWalkKids(_, _, _)

\* the loops of server/validation.py from child i on
ServerWalkKids(data, i, depth) ==
    IF i > Len(data.kids)
    THEN IF data.n > Len(data.kids)
         THEN TailWalk(data, ServerWalk(JNull, depth + 1))
         ELSE Walked(TRUE, <<>>)
    ELSE LET r == ServerWalk(IF data.t = "dict" THEN data.kids[i].v
                             ELSE data.kids[i], depth + 1)
         IN  IF ~r.valid THEN r
             ELSE LET rest == ServerWalkKids(data, i + 1, depth)
                  IN  Walked(rest.valid, r.calls \o rest.calls)

\* validate_json_complexity of server/validation.py with the calls it makes
ServerWalk(data, depth) ==
    IF depth > ServerLimits.MAX_JSON_DEPTH
    THEN Walked(FALSE, <<Call(depth, FALSE, FALSE, data, 1)>>)
    ELSE CASE data.t = "dict" /\ data.n > ServerLimits.MAX_OBJECT_KEYS ->
                Walked(FALSE, <<Call(depth, TRUE, FALSE, data, 1)>>)
           [] data.t = "list" /\ data.n > ServerLimits.MAX_ARRAY_LENGTH ->
                Walked(FALSE, <<Call(depth, TRUE, FALSE, data, 1)>>)
           [] data.t = "str" ->
                Walked(data.n <= ServerLimits.MAX_STRING_LENGTH,
                       <<Call(depth, TRUE, FALSE, data, 1)>>)
           [] data.t \in {"dict", "list"} ->
                LET kids == ServerWalkKids(data, 1, depth)
                IN  Walked(kids.valid, <<Call(depth, TRUE, TRUE, data, 1)>> \o kids.calls)
           [] OTHER -> Walked(TRUE, <<Call(depth, TRUE, FALSE, data, 1)>>)

(***************************************************************************)
(* Exceptions and the error sanitizer.                                     *)
(***************************************************************************)
NoExc == [type |-> "", message |-> <<>>]
Returned(value) == [ok |-> TRUE, value |-> value, exc |-> NoExc]
Raise(type, message) ==
    [ok |-> FALSE, value |-> JNull, exc |-> [type |-> type, message |-> message]]

\* type(v).__name__ of a value json.loads produced
PyTypeName(v) ==
    CASE v.t = "null" -> "NoneType"
      [] v.t = "num" -> "int"
      [] OTHER -> v.t

\* v.attr on a value that has no such attribute
AttributeError(v, attr) ==
    Raise("AttributeError",
          <<"'", PyTypeName(v), "' object has no attribute '", attr, "'">>)

\* "x in v" on a value that is no container
NotIterable(v) ==
    Raise("TypeError", <<"argument of type '", PyTypeName(v), "' is not iterable">>)

HexDigits ==
    <<"0", "1", "2", "3", "4", "5", "6", "7", "8", "9", "a", "b", "c", "d", "e", "f">>

\* the characters of str(uuid.uuid4()) for the i-th value uuid4 can draw:
\* 32 hexadecimal digits in groups of 8-4-4-4-12 with "-" between the groups
Uuid4(i) ==
    <<"0", "0", "0", "0", "0", "0", "0", HexDigits[(i % 16) + 1], "-",
      "0", "0", "0", "0", "-", "4", "0", "0", "0", "-", "8", "0", "0", "0", "-",
      "0", "0", "0", "0", "0", "0", "0", "0", "0", "0", "0", "0">>

\* the slice [:8]
ErrorIdChars(i) == SubSeq(Uuid4(i), 1, 8)

\* the string made of the characters
RECURSIVE JoinChars(_)
JoinChars(chars) ==
    IF chars = <<>> THEN "" ELSE chars[1] \o JoinChars(Tail(chars))

\* str(uuid.uuid4())[:8]: the i-th of the ids uuid4 can draw
ErrorIdText(i) == JoinChars(ErrorIdChars(i))
ErrorIds == {ErrorIdText(i) : i \in 1..MaxErrorIds}

\* the client message with the exception's type in it
SanitizedMessageTypeMut(error, error_id) ==
    <<"An internal error occurred (", error.type, "). Error ID: ", error_id>>

SanitizedMessageMut(error, error_id) ==
    <<"An internal error occurred. Error ID: ", error_id>> \o error.message
SanitizedMessage(error, error_id) ==
    <<"An internal error occurred. Error ID: ", error_id>>

\* sanitize_error(error, error_context), with the id uuid4 drew
sanitize_error(error, error_context, error_id) ==
    [error_id |-> error_id,
     sanitized_message |-> SanitizedMessage(error, error_id),
     stderr |-> <<[id |-> error_id, context |-> error_context,
                   type |-> error.type, message |-> error.message]>>]

(***************************************************************************)
(* Tool handlers. Static(name) is a literal structure of the source whose  *)
(* content is not modelled.                                                *)
(***************************************************************************)
Static(name) == [t |-> "static", s |-> name, n |-> 0, kids |-> <<>>]

get_stride_threat_framework(args) ==
    IF args.t # "dict" THEN AttributeError(args, "get")
    ELSE Returned(Dict(<<
        K("stride_framework", Static("stride_framework")),
        K("application_context", Dict(<<
            K("app_description", Get(args, "app_description", Str(""))),
            K("app_type", Get(args, "app_type", Str("Web Application"))),
            K("authentication_methods",
              Get(args, "authentication_methods", List(<<Str("Username/Password")>>))),
            K("internet_facing", Get(args, "internet_facing", JBool(TRUE))),
            K("sensitive_data_types",
              Get(args, "sensitive_data_types", List(<<Str("User Data")>>)))>>)),
        K("analysis_guidance", Static("stride.analysis_guidance")),
        K("next_steps", Static("stride.next_steps"))>>))

\* a handler whose priority_filter defaults to "high"
generate_threat_mitigationsMut(args) ==
    IF args.t # "dict" THEN AttributeError(args, "get")
    ELSE Returned(Dict(<<
        K("mitigation_framework", Static("mitigation_framework")),
        K("threat_context", Get(args, "threats", List(<<>>))),
        K("priority_filter", Get(args, "priority_filter", Str("high"))),
        K("analysis_guidance", Static("mitigations.analysis_guidance")),
        K("next_steps", Static("mitigations.next_steps"))>>))

generate_threat_mitigations(args) ==
    IF args.t # "dict" THEN AttributeError(args, "get")
    ELSE Returned(Dict(<<
        K("mitigation_framework", Static("mitigation_framework")),
        K("threat_context", Get(args, "threats", List(<<>>))),
        K("priority_filter", Get(args, "priority_filter", Str("all"))),
        K("analysis_guidance", Static("mitigations.analysis_guidance")),
        K("next_steps", Static("mitigations.next_steps"))>>))

calculate_threat_risk_scores(args) ==
    IF args.t # "dict" THEN AttributeError(args, "get")
    ELSE Returned(Dict(<<
        K("dread_framework", Static("dread_framework")),
        K("calibration_guidance", Static("calibration_guidance")),
        K("scoring_examples", Static("scoring_examples")),
        K("threats", Get(args, "threats", List(<<>>))),
        K("scoring_guidance", Get(args, "scoring_guidance", Dict(<<>>))),
        K("analysis_guidance", Static("dread.analysis_guidance")),
        K("next_steps", Static("dread.next_steps"))>>))

create_threat_attack_trees(args) ==
    IF args.t # "dict" THEN AttributeError(args, "get")
    ELSE Returned(Dict(<<
        K("attack_tree_framework", Static("attack_tree_framework")),
        K("output_formats", Static("output_formats")),
        K("threat_context", Get(args, "threats", List(<<>>))),
        K("max_depth", Get(args, "max_depth", JNum("3"))),
        K("output_format", Get(args, "output_format", Str("both"))),
        K("analysis_guidance", Static("attack_trees.analysis_guidance"))>>))

generate_security_tests(args) ==
    IF args.t # "dict" THEN AttributeError(args, "get")
    ELSE Returned(Dict(<<
        K("security_testing_framework", Static("security_testing_framework")),
        K("use_cases", Static("use_cases")),
        K("format_examples", Static("format_examples")),
        K("threat_context", Get(args, "threats", List(<<>>))),
        K("test_type", Get(args, "test_type", Str("mixed"))),
        K("format_type", Get(args, "format_type", Str("gherkin"))),
        K("analysis_guidance", Static("tests.analysis_guidance"))>>))

\* "name in container" for a section name of generate_threat_report; the
\* only strings the model supplies are section names, so the substring test
\* on a string is equality
Contains(container, name) ==
    CASE container.t = "list" ->
            \E i \in 1..Len(container.kids) :
                container.kids[i].t = "str" /\ container.kids[i].s = name
      [] container.t = "dict" -> HasKey(container, name)
      [] OTHER -> container.s = name

DEFAULT_SECTIONS ==
    List(<<Str("executive_summary"), Str("threats"), Str("mitigations"),
           Str("risk_scores")>>)

Section(include_sections, name, heading) ==
    IF Contains(include_sections, name) THEN <<heading>> ELSE <<>>

\* len(threat_model), whatever its type
ThreatCountMut(threat_model) == threat_model.n
\* len(threat_model) if isinstance(threat_model, list) else 0
ThreatCount(threat_model) ==
    IF threat_model.t = "list" THEN threat_model.n ELSE 0

generate_threat_report(args) ==
    IF args.t # "dict" THEN AttributeError(args, "get")
    ELSE LET threat_model == Get(args, "threat_model", List(<<>>))
             include_sections == Get(args, "include_sections", DEFAULT_SECTIONS)
         IN  IF include_sections.t \notin {"list", "dict", "str"}
             THEN NotIterable(include_sections)
             ELSE Returned(
                    <<"# STRIDE Threat Model Report">>
                    \o Section(include_sections, "executive_summary", "## Executive Summary")
                    \o <<"## Application Overview">>
                    \o Section(include_sections, "threats", "## Threat Analysis")
                    \o Section(include_sections, "risk_scores", "## Risk Assessment")
                    \o Section(include_sections, "mitigations", "## Recommended Mitigations")
                    \o <<"## Security Testing Plan",
                         "**Total Threats Identified:** ",
                         ToString(ThreatCount(threat_model)),
                         "**Report Generated:** [Date]">>)

\* a handler that reports whether tools/list was asked for before
validate_threat_coverageMut(args) ==
    IF args.t # "dict" THEN AttributeError(args, "get")
    ELSE Returned(Dict(<<
        K("coverage_framework", Static("coverage_framework")),
        K("threat_model", Get(args, "threat_model", List(<<>>))),
        K("app_context", Get(args, "app_context", Dict(<<>>))),
        K("tools_listed", JBool(lastToolsList # <<>>)),
        K("analysis_guidance", Static("coverage.analysis_guidance"))>>))

validate_threat_coverage(args) ==
    IF args.t # "dict" THEN AttributeError(args, "get")
    ELSE Returned(Dict(<<
        K("coverage_framework", Static("coverage_framework")),
        K("threat_model", Get(args, "threat_model", List(<<>>))),
        K("app_context", Get(args, "app_context", Dict(<<>>))),
        K("analysis_guidance", Static("coverage.analysis_guidance"))>>))

IsStage(analysis_stage, name) == analysis_stage.t = "str" /\ analysis_stage.s = name

StageSections(analysis_stage) ==
    IF IsStage(analysis_stage, "initial")
    THEN <<K("prioritized_reading_strategy", Static("prioritized_reading_strategy")),
           K("initial_reconnaissance", Static("initial_reconnaissance"))>>
    ELSE IF IsStage(analysis_stage, "deep_dive")
    THEN <<K("deep_dive_analysis", Static("deep_dive_analysis")),
           K("technology_guides", Static("technology_guides"))>>
    ELSE IF IsStage(analysis_stage, "validation")
    THEN <<K("validation_checklist", Static("validation_checklist"))>>
    ELSE <<>>

StageNextSteps(analysis_stage) ==
    IF IsStage(analysis_stage, "initial")
    THEN <<K("next_steps", Static("initial.next_steps"))>>
    ELSE IF IsStage(analysis_stage, "deep_dive")
    THEN <<K("next_steps", Static("deep_dive.next_steps"))>>
    ELSE IF IsStage(analysis_stage, "validation")
    THEN <<K("next_steps", Static("validation.next_steps"))>>
    ELSE <<>>

StageGuidance(analysis_stage) ==
    IF IsStage(analysis_stage, "initial") THEN Str("INITIAL RECONNAISSANCE STAGE:")
    ELSE IF IsStage(analysis_stage, "deep_dive") THEN Str("DEEP DIVE ANALYSIS STAGE:")
    ELSE IF IsStage(analysis_stage, "validation") THEN Str("VALIDATION STAGE:")
    ELSE Str("Unknown analysis stage. Valid stages: 'initial', 'deep_dive', 'validation'")

\* repo_context.get(key, '').lower() of the deep_dive stage
LowerOf(repo_context, key) ==
    IF repo_context.t # "dict" THEN AttributeError(repo_context, "get")
    ELSE IF Get(repo_context, key, Str("")).t # "str"
    THEN AttributeError(Get(repo_context, key, Str("")), "lower")
    ELSE Returned(Get(repo_context, key, Str("")))

get_repository_analysis_guide(args) ==
    IF args.t # "dict" THEN AttributeError(args, "get")
    ELSE LET analysis_stage == Get(args, "analysis_stage", Str("initial"))
             repo_context == Get(args, "repository_context", Dict(<<>>))
             primary_lang == LowerOf(repo_context, "primary_language")
             framework == LowerOf(repo_context, "framework_detected")
         IN  IF IsStage(analysis_stage, "deep_dive") /\ ~primary_lang.ok
             THEN primary_lang
             ELSE IF IsStage(analysis_stage, "deep_dive") /\ ~framework.ok
             THEN framework
             ELSE Returned(Dict(
                    <<K("analysis_framework", Static("analysis_framework")),
                      K("context_management", Static("context_management"))>>
                    \o StageSections(analysis_stage)
                    \o <<K("output_template", Static("output_template")),
                         K("github_mcp_integration", Static("github_mcp_integration"))>>
                    \o StageNextSteps(analysis_stage)
                    \o <<K("analysis_guidance", StageGuidance(analysis_stage)),
                         K("current_stage", analysis_stage),
                         K("repository_context", repo_context)>>))

(***************************************************************************)
(* JSON-RPC dispatcher, handle_mcp_request.                                *)
(***************************************************************************)
Success(result, request_id) ==
    [jsonrpc |-> "2.0", result |-> result, id |-> request_id]
Failure(code, message, request_id) ==
    [jsonrpc |-> "2.0", error |-> [code |-> code, message |-> message],
     id |-> request_id]

\* v == 'text' for a value json.loads produced
Is(v, text) == v.t = "str" /\ v.s = text

ProtocolVersionMut(params) ==
    IF params.t = "dict" /\ HasKey(params, "protocolVersion")
    THEN PyStr(Get(params, "protocolVersion", JNull))
    ELSE "2025-03-26"
\* the protocolVersion of the initialize result; params is not consulted
ProtocolVersion(params) == "2025-03-26"

InitializeResult(params) ==
    [protocolVersion |-> ProtocolVersion(params),
     capabilities |-> [tools |-> [listChanged |-> FALSE]],
     serverInfo |-> [name |-> "STRIDE GPT MCP Server", version |-> "0.1.0"],
     instructions |->
        "Professional threat modeling server using the STRIDE methodology."]

\* one property of an inputSchema: its name, its type and its declared
\* default, <<>> when the schema declares none
Property(name, type, default) == [name |-> name, type |-> type, default |-> default]

\* inputSchema.properties of the descriptor of a tool, in the order written
SchemaProperties(name) ==
    CASE name = "get_stride_threat_framework" ->
            <<Property("app_description", "string", <<>>),
              Property("app_type", "string", <<Str("Web Application")>>),
              Property("authentication_methods", "array",
                       <<List(<<Str("Username/Password")>>)>>),
              Property("internet_facing", "boolean", <<JBool(TRUE)>>),
              Property("sensitive_data_types", "array", <<List(<<Str("User Data")>>)>>)>>
      [] name = "generate_threat_mitigations" ->
            <<Property("threats", "array", <<>>),
              Property("priority_filter", "string", <<Str("all")>>)>>
      [] name = "create_threat_attack_trees" ->
            <<Property("threats", "array", <<>>),
              Property("max_depth", "integer", <<JNum("3")>>),
              Property("output_format", "string", <<Str("both")>>)>>
      [] name = "calculate_threat_risk_scores" ->
            <<Property("threats", "array", <<>>),
              Property("scoring_guidance", "object", <<>>)>>
      [] name = "generate_security_tests" ->
            <<Property("threats", "array", <<>>),
              Property("test_type", "string", <<Str("mixed")>>),
              Property("format_type", "string", <<Str("gherkin")>>)>>
      [] name = "generate_threat_report" ->
            <<Property("threat_model", "array", <<>>),
              Property("mitigations", "array", <<>>),
              Property("dread_scores", "array", <<>>),
              Property("attack_trees", "array", <<>>),
              Property("include_sections", "array", <<DEFAULT_SECTIONS>>)>>
      [] name = "validate_threat_coverage" ->
            <<Property("threat_model", "array", <<>>),
              Property("app_context", "object", <<>>)>>
      [] name = "get_repository_analysis_guide" ->
            <<Property("analysis_stage", "string", <<Str("initial")>>),
              Property("repository_context", "object", <<>>)>>
      [] OTHER -> <<>>

\* one descriptor of the tools/list literal; the description text is a
\* literal of the source, named here by the tool
Descriptor(name) ==
    [name |-> name,
     description |-> Static(name),
     inputSchema |-> [type |-> "object", properties |-> SchemaProperties(name)]]

ToolsMut ==
    IF lastToolsList = <<>>
    THEN <<Descriptor("get_stride_threat_framework"),
           Descriptor("generate_threat_mitigations"),
           Descriptor("create_threat_attack_trees"),
           Descriptor("calculate_threat_risk_scores"),
           Descriptor("generate_security_tests"),
           Descriptor("generate_threat_report"),
           Descriptor("validate_threat_coverage"),
           Descriptor("get_repository_analysis_guide")>>
    ELSE <<Descriptor("generate_threat_mitigations"),
           Descriptor("get_stride_threat_framework"),
           Descriptor("create_threat_attack_trees"),
           Descriptor("calculate_threat_risk_scores"),
           Descriptor("generate_security_tests"),
           Descriptor("generate_threat_report"),
           Descriptor("validate_threat_coverage"),
           Descriptor("get_repository_analysis_guide")>>
\* the list "tools" built by the tools/list branch
Tools ==
    <<Descriptor("get_stride_threat_framework"),
      Descriptor("generate_threat_mitigations"),
      Descriptor("create_threat_attack_trees"),
      Descriptor("calculate_threat_risk_scores"),
      Descriptor("generate_security_tests"),
      Descriptor("generate_threat_report"),
      Descriptor("validate_threat_coverage"),
      Descriptor("get_repository_analysis_guide")>>

\* the names the if/elif chain of tools/call compares tool_name with
HandlerNames ==
    {"get_stride_threat_framework", "generate_threat_mitigations",
     "calculate_threat_risk_scores", "create_threat_attack_trees",
     "generate_security_tests", "generate_threat_report",
     "validate_threat_coverage", "get_repository_analysis_guide"}

HasHandler(tool_name) == tool_name.t = "str" /\ tool_name.s \in HandlerNames

\* the function a test binds the module global get_stride_threat_framework to
broken_function(args) ==
    Raise("Exception",
          <<"Database connection error at /internal/db/config.py line 127: ",
            "password authentication failed">>)

\* the function object the name of a handler resolves to when it is called
Resolved(tool_name) ==
    IF Is(tool_name, "get_stride_threat_framework") /\ binding = "broken"
    THEN "broken_function"
    ELSE tool_name.s

\* the handler the if/elif chain selects; its name is looked up among the
\* module globals at the time of the call
CallTool(tool_name, arguments) ==
    CASE Is(tool_name, "get_stride_threat_framework") ->
            IF Resolved(tool_name) = "broken_function"
            THEN broken_function(arguments)
            ELSE get_stride_threat_framework(arguments)
      [] Is(tool_name, "generate_threat_mitigations") ->
            generate_threat_mitigations(arguments)
      [] Is(tool_name, "calculate_threat_risk_scores") ->
            calculate_threat_risk_scores(arguments)
      [] Is(tool_name, "create_threat_attack_trees") ->
            create_threat_attack_trees(arguments)
      [] Is(tool_name, "generate_security_tests") ->
            generate_security_tests(arguments)
      [] Is(tool_name, "generate_threat_report") ->
            generate_threat_report(arguments)
      [] Is(tool_name, "validate_threat_coverage") ->
            validate_threat_coverage(arguments)
      [] Is(tool_name, "get_repository_analysis_guide") ->
            get_repository_analysis_guide(arguments)

\* JSON text is a sequence of tokens [tok, s, n]: punctuation, literals,
\* numbers with their digits s, strings with their characters s and length
\* n. A run of n elements that are null is one token "nulls", a run of n
\* members that are null under short keys is one token "members".
Tok(kind, text, count) == [tok |-> kind, s |-> text, n |-> count]
Comma == Tok(",", "", 0)

\* the tokens json.dumps writes for a value
RECURSIVE Tokens(_), ElementTokens(_, _), MemberTokens(_, _)
Tokens(v) ==
    CASE v.t = "null" -> <<Tok("null", "", 0)>>
      [] v.t = "bool" -> <<Tok(v.s, "", 0)>>
      [] v.t = "num" -> <<Tok("num", v.s, 0)>>
      [] v.t = "str" -> <<Tok("str", v.s, v.n)>>
      [] v.t = "static" -> <<Tok("static", v.s, 0)>>
      [] v.t = "list" ->
            <<Tok("[", "", 0)>> \o ElementTokens(v.kids, 1)
            \o (IF v.n > Len(v.kids)
                THEN (IF v.kids = <<>> THEN <<>> ELSE <<Comma>>)
                     \o <<Tok("nulls", "", v.n - Len(v.kids))>>
                ELSE <<>>)
            \o <<Tok("]", "", 0)>>
      [] v.t = "dict" ->
            <<Tok("{", "", 0)>> \o MemberTokens(v.kids, 1)
            \o (IF v.n > Len(v.kids)
                THEN (IF v.kids = <<>> THEN <<>> ELSE <<Comma>>)
                     \o <<Tok("members", "", v.n - Len(v.kids))>>
                ELSE <<>>)
            \o <<Tok("}", "", 0)>>
ElementTokens(items, i) ==
    IF i > Len(items) THEN <<>>
    ELSE (IF i > 1 THEN <<Comma>> ELSE <<>>)
         \o Tokens(items[i]) \o ElementTokens(items, i + 1)
MemberTokens(entries, i) ==
    IF i > Len(entries) THEN <<>>
    ELSE (IF i > 1 THEN <<Comma>> ELSE <<>>)
         \o <<Tok("str", entries[i].k, entries[i].klen), Tok(":", "", 0)>>
         \o Tokens(entries[i].v) \o MemberTokens(entries, i + 1)

\* json.loads: the value a token sequence stands for, read from position i;
\* next is the position after it
RECURSIVE ParseValue(_, _), ParseElements(_, _, _, _), ParseMembers(_, _, _, _)
ParseValue(toks, i) ==
    CASE toks[i].tok = "null" -> [v |-> JNull, next |-> i + 1]
      [] toks[i].tok = "true" -> [v |-> JBool(TRUE), next |-> i + 1]
      [] toks[i].tok = "false" -> [v |-> JBool(FALSE), next |-> i + 1]
      [] toks[i].tok = "num" -> [v |-> JNum(toks[i].s), next |-> i + 1]
      [] toks[i].tok = "str" -> [v |-> JStr(toks[i].s, toks[i].n), next |-> i + 1]
      [] toks[i].tok = "static" -> [v |-> Static(toks[i].s), next |-> i + 1]
      [] toks[i].tok = "[" -> ParseElements(toks, i + 1, <<>>, 0)
      [] toks[i].tok = "{" -> ParseMembers(toks, i + 1, <<>>, 0)
ParseElements(toks, i, items, run) ==
    IF toks[i].tok = "]"
    THEN [v |-> JList(items, Len(items) + run), next |-> i + 1]
    ELSE IF toks[i].tok = ","
    THEN ParseElements(toks, i + 1, items, run)
    ELSE IF toks[i].tok = "nulls"
    THEN ParseElements(toks, i + 1, items, run + toks[i].n)
    ELSE LET element == ParseValue(toks, i)
         IN  ParseElements(toks, element.next, Append(items, element.v), run)
ParseMembers(toks, i, entries, run) ==
    IF toks[i].tok = "}"
    THEN [v |-> JDict(entries, Len(entries) + run), next |-> i + 1]
    ELSE IF toks[i].tok = ","
    THEN ParseMembers(toks, i + 1, entries, run)
    ELSE IF toks[i].tok = "members"
    THEN ParseMembers(toks, i + 1, entries, run + toks[i].n)
    ELSE LET member == ParseValue(toks, i + 2)
         IN  ParseMembers(toks, member.next,
                          Append(entries, KV(toks[i].s, toks[i].n, member.v)), run)

\* json.loads(text) of a client
JsonLoads(text) == ParseValue(text.tokens, 1).v

\* json.dumps(str(result)): the text of a JSON string
JsonDumpsMut(doc) ==
    [format |-> "json", indent |-> 2, tokens |-> <<Tok("str", doc.s, doc.n)>>]
\* json.dumps(result, indent=2)
JsonDumps(doc) == [format |-> "json", indent |-> 2, tokens |-> Tokens(doc)]
\* the markdown string of generate_threat_report, passed on as it is
Markdown(report) == [format |-> "markdown", parts |-> report]

ToolText(tool_name, value) ==
    IF Is(tool_name, "generate_threat_report") THEN Markdown(value)
    ELSE JsonDumps(value)

ToolSuccessResponse(tool_name, value, request_id) ==
    Success([content |-> <<[type |-> "text", text |-> ToolText(tool_name, value)]>>],
            request_id)

UnknownToolResponse(tool_name, request_id) ==
    Failure(INVALID_PARAMETER, <<"Unknown tool: ", PyStr(tool_name)>>, request_id)

ToolFailedResponseMut(sanitized_message, request_id) ==
    [jsonrpc |-> "2.0", result |-> JNull,
     error |-> [code |-> TOOL_EXECUTION_FAILED, message |-> sanitized_message],
     id |-> request_id]
\* the envelope of a failed tool call under the internal-error code
ToolFailedResponseAliasMut(sanitized_message, request_id) ==
    Failure(INTERNAL_ERROR, sanitized_message, request_id)
ToolFailedResponse(sanitized_message, request_id) ==
    Failure(TOOL_EXECUTION_FAILED, sanitized_message, request_id)

MethodNotFoundResponseMut(method, request_id) ==
    IF method.t = "str"
    THEN Failure(METHOD_NOT_FOUND, <<"Method not found: ", PyStr(method)>>, request_id)
    ELSE Failure(INVALID_REQUEST, <<"Invalid Request">>, request_id)
MethodNotFoundResponse(method, request_id) ==
    Failure(METHOD_NOT_FOUND, <<"Method not found: ", PyStr(method)>>, request_id)

\* what one call of handle_mcp_request did: the envelope it returned or the
\* exception that escaped it, the handlers it invoked, its stderr output
Outcome(returned, escaped, handlers, stderr) ==
    [ret |-> returned, raised |-> escaped, invoked |-> handlers, stderr |-> stderr]

\* the tools/call branch
ToolsCall(params, request_id, error_id) ==
    IF params.t # "dict"
    THEN Outcome(<<>>, <<AttributeError(params, "get").exc>>, <<>>, <<>>)
    ELSE LET tool_name == Get(params, "name", JNull)
             arguments == Get(params, "arguments", Dict(<<>>))
             result == CallTool(tool_name, arguments)
             sanitized == sanitize_error(result.exc,
                              <<"Tool execution: ", PyStr(tool_name)>>, error_id)
         IN  IF ~HasHandler(tool_name)
             THEN Outcome(<<UnknownToolResponse(tool_name, request_id)>>,
                          <<>>, <<>>, <<>>)
             ELSE IF result.ok
             THEN Outcome(<<ToolSuccessResponse(tool_name, result.value, request_id)>>,
                          <<>>, <<Resolved(tool_name)>>, <<>>)
             ELSE Outcome(<<ToolFailedResponse(sanitized.sanitized_message, request_id)>>,
                          <<>>, <<Resolved(tool_name)>>, sanitized.stderr)

handle_mcp_request(b, error_id) ==
    IF b.t # "dict"
    THEN Outcome(<<>>, <<AttributeError(b, "get").exc>>, <<>>, <<>>)
    ELSE LET method == Get(b, "method", JNull)
             params == Get(b, "params", Dict(<<>>))
             request_id == Get(b, "id", JNull)
         IN  IF Is(method, "initialize")
             THEN Outcome(<<Success(InitializeResult(params), request_id)>>,
                          <<>>, <<>>, <<>>)
             ELSE IF Is(method, "tools/list")
             THEN Outcome(<<Success([tools |-> Tools], request_id)>>, <<>>, <<>>, <<>>)
             ELSE IF Is(method, "tools/call")
             THEN ToolsCall(params, request_id, error_id)
             ELSE Outcome(<<MethodNotFoundResponse(method, request_id)>>,
                          <<>>, <<>>, <<>>)

(***************************************************************************)
(* HTTP entry point, handler.do_POST, one action per step.                 *)
(***************************************************************************)
\* the Content-Length header: absent, a number, or text int() rejects
NoHeader == [present |-> FALSE, numeric |-> TRUE, value |-> 0]
Header(value) == [present |-> TRUE, numeric |-> TRUE, value |-> value]
BadHeader == [present |-> TRUE, numeric |-> FALSE, value |-> 0]

\* a request: the header, the bytes on the wire, what they decode to
Request(header, size, raw, value) ==
    [header |-> header, size |-> size, raw |-> raw, value |-> value]
NoRequest == Request(NoHeader, 0, "none", JNull)

HttpResponse(status, envelope) == [status |-> status, envelope |-> envelope]

\* int(self.headers.get('Content-Length', 0))
ContentLength(header) == IF header.present THEN header.value ELSE 0

\* len(self.rfile.read(content_length)): a negative length reads to the end
ReadLength(content_length, size) ==
    IF content_length < 0 \/ content_length > size THEN size ELSE content_length

\* the "except Exception" clause of do_POST
InternalErrorResponse(error, error_id) ==
    HttpResponse(500,
        Failure(-32603,
                sanitize_error(error, <<"HTTP POST request handling">>,
                               error_id).sanitized_message,
                JNull))

InternalErrorLog(error, error_id) ==
    sanitize_error(error, <<"HTTP POST request handling">>, error_id).stderr

PayloadTooLargeResponse(content_length) ==
    HttpResponse(413,
        Failure(PAYLOAD_TOO_LARGE,
                <<"Payload size ", ToString(content_length),
                  " bytes exceeds maximum of ", ToString(MAX_PAYLOAD_SIZE),
                  " bytes">>,
                JNull))

ParseErrorResponse ==
    HttpResponse(400, Failure(PARSE_ERROR, <<"Parse error">>, JNull))

TooComplexResponse(error, request_id) ==
    HttpResponse(400,
        Failure(PAYLOAD_TOO_COMPLEX,
                <<"Payload complexity validation failed: ">> \o error,
                request_id))

InvalidRequestResponse(request_id) ==
    HttpResponse(400, Failure(INVALID_REQUEST, <<"Invalid Request">>, request_id))

\* not body.get('jsonrpc') == '2.0' or not body.get('method')
BadShape(b) ==
    \/ ~Is(Get(b, "jsonrpc", JNull), "2.0")
    \/ ~Truthy(Get(b, "method", JNull))

\* a response after which do_POST goes on to the dispatcher
RespondMut(response, stderr) ==
    /\ pc' = IF pc = "shape" THEN "dispatch" ELSE "done"
    /\ responses' = Append(responses, response)
    /\ log' = log \o stderr

\* the request ends: the response is written, or the exception is logged and
\* the 500 response written
Respond(response, stderr) ==
    /\ pc' = "done"
    /\ responses' = Append(responses, response)
    /\ log' = log \o stderr

Fail(error) ==
    \E error_id \in ErrorIds :
        Respond(InternalErrorResponse(error, error_id),
                InternalErrorLog(error, error_id))

(***************************************************************************)
(* Inputs.                                                                 *)
(***************************************************************************)
\* an optional member of a JSON object: <<>> leaves the key out
Opt(key, value) == IF value = <<>> THEN <<>> ELSE <<K(key, value[1])>>

Envelope(jsonrpc, method, params, id) ==
    Dict(Opt("jsonrpc", jsonrpc) \o Opt("method", method)
         \o Opt("params", params) \o Opt("id", id))

JsonrpcInputs == {<<>>, <<Str("2.0")>>, <<Str("1.0")>>}
IdInputs == {<<>>, <<JNull>>, <<JNum("1")>>, <<Str("abc")>>}
MethodInputs ==
    {<<>>, <<Str("")>>, <<Str("initialize")>>, <<Str("tools/list")>>,
     <<Str("tools/call")>>, <<Str("bogus")>>, <<JNum("5")>>, <<JBool(TRUE)>>}
ParamsInputs ==
    {<<>>, <<JNull>>, <<List(<<>>)>>, <<Str("abc")>>, <<Dict(<<>>)>>,
     <<Dict(<<K("protocolVersion", Str("2024-11-05"))>>)>>}

NameInputs ==
    {<<Str(name)>> : name \in HandlerNames}
    \cup {<<>>, <<JNull>>, <<Str("bogus")>>, <<JNum("5")>>}

RECURSIVE Threats(_)
Threats(count) ==
    IF count = 0 THEN <<>>
    ELSE Append(Threats(count - 1), Dict(<<K("id", Str("T" \o ToString(count)))>>))

\* params.arguments of any type
ArgumentInputs ==
    {<<>>, <<JNull>>, <<Dict(<<>>)>>, <<List(<<>>)>>, <<Str("abc")>>, <<JNum("5")>>}

\* argument maps that reach the type-dependent statements of the handlers
ToolArgumentInputs ==
    {<<Dict(<<K("threat_model", List(Threats(count)))>>)>> : count \in 0..MaxThreats}
    \cup {<<Dict(<<K("threat_model", Str("abc"))>>)>>,
          <<Dict(<<K("include_sections", JNull)>>)>>,
          <<Dict(<<K("include_sections", JNum("5"))>>)>>,
          <<Dict(<<K("include_sections", Str("threats"))>>)>>,
          <<Dict(<<K("include_sections", List(<<Str("mitigations")>>))>>)>>,
          <<Dict(<<K("analysis_stage", Str("deep_dive"))>>)>>,
          <<Dict(<<K("analysis_stage", Str("deep_dive")),
                   K("repository_context", JNull)>>)>>,
          <<Dict(<<K("analysis_stage", Str("deep_dive")),
                   K("repository_context",
                     Dict(<<K("primary_language", JNum("5"))>>))>>)>>,
          <<Dict(<<K("analysis_stage", Str("deep_dive")),
                   K("repository_context",
                     Dict(<<K("primary_language", Str("Python")),
                            K("framework_detected", JNull)>>))>>)>>,
          <<Dict(<<K("analysis_stage", Str("validation")),
                   K("repository_context", JNull)>>)>>,
          <<Dict(<<K("analysis_stage", Str("bogus"))>>)>>,
          <<Dict(<<K("app_description", Str("Test app")),
                   K("internet_facing", JBool(FALSE))>>)>>}

ToolParams(name, arguments) == <<Dict(Opt("name", name) \o Opt("arguments", arguments))>>

\* JSON-RPC envelopes of every shape, for every method
EnvelopeInputs ==
    {Envelope(j, m, p, i) :
        j \in JsonrpcInputs, m \in MethodInputs, p \in ParamsInputs, i \in IdInputs}

\* tools/call envelopes for every name and every type of arguments
ToolCallInputs ==
    {Envelope(<<Str("2.0")>>, <<Str("tools/call")>>, ToolParams(name, a), i) :
        name \in NameInputs, a \in ArgumentInputs \cup ToolArgumentInputs,
        i \in IdInputs}

\* leaf nested under k containers of the given type
RECURSIVE Nest(_, _, _)
Nest(type, leaf, k) ==
    IF k = 0 THEN leaf
    ELSE IF type = "list" THEN List(<<Nest(type, leaf, k - 1)>>)
    ELSE Dict(<<K("k", Nest(type, leaf, k - 1))>>)

\* lengths on both sides of a limit
Around(limit) == (limit - 1)..(limit + MaxOver)

\* values on both sides of each limit of the guard
LeafInputs ==
    {JNull, JNum("5"), JBool(TRUE), Str("abc"), List(<<>>), Dict(<<>>)}
    \cup {JStr("long", n) : n \in Around(MAX_STRING_LENGTH)}
    \cup {JList(<<>>, n) : n \in Around(MAX_ARRAY_LENGTH)}
    \cup {JList(<<Str("abc")>>, n) : n \in Around(MAX_ARRAY_LENGTH)}
    \cup {JDict(<<>>, n) : n \in Around(MAX_OBJECT_KEYS)}
    \cup {JDict(<<KV("longkey", n, Str("value"))>>, 1) : n \in Around(MAX_STRING_LENGTH)}
    \cup {JDict(<<K("id", JNum("1")), KV("longkey", n, JNull)>>, 2) :
            n \in Around(MAX_STRING_LENGTH)}
    \cup {JDict(<<KV("longkey", MAX_STRING_LENGTH + 1, JNull)>>, n) :
            n \in Around(MAX_OBJECT_KEYS)}
    \cup {List(<<Str("abc"), JStr("long", n)>>) : n \in Around(MAX_STRING_LENGTH)}
    \cup {List(<<JStr("long", MAX_STRING_LENGTH + 1), JList(<<>>, MAX_ARRAY_LENGTH + 1)>>),
          Dict(<<K("id", JList(<<>>, MAX_ARRAY_LENGTH + 1)),
                 KV("longkey", MAX_STRING_LENGTH + 1, JNull)>>),
          Dict(<<KV("longkey", MAX_STRING_LENGTH + 1,
                    JStr("long", MAX_STRING_LENGTH + 1))>>)}

DepthInputs == {0, 1} \cup (MAX_JSON_DEPTH - 2)..(MAX_JSON_DEPTH + MaxExtraDepth)

GuardInputs ==
    {Nest(type, leaf, k) : type \in {"list", "dict"}, leaf \in LeafInputs,
                           k \in DepthInputs}

\* bodies whose arguments carry a value on either side of a limit
HeavyCallInputs ==
    {Envelope(<<Str("2.0")>>, <<Str("tools/call")>>,
              ToolParams(<<Str("generate_threat_mitigations")>>,
                         <<Dict(<<K("threats", Nest("list", leaf, k))>>)>>),
              <<JNum("1")>>) :
        leaf \in {Str("abc"), JStr("long", MAX_STRING_LENGTH + 1),
                  JList(<<>>, MAX_ARRAY_LENGTH)},
        k \in {0, MAX_JSON_DEPTH - 4, MAX_JSON_DEPTH - 3}}

\* the objects the tests hand to handle_mcp_request
DirectInputs == EnvelopeInputs \cup ToolCallInputs

\* nominal size in bytes of a body that fits the size limit
BodySize == 100

\* the exceptions the tests hand to sanitize_error
SanitizeErrors ==
    {Raise("Exception", <<"Test error">>).exc,
     Raise("ValueError",
           <<"Database connection failed at /internal/path/db.py line 42">>).exc,
     Raise("RuntimeError", <<"Internal server error with sensitive data">>).exc}

\* the contexts the tests hand to sanitize_error; "" is the default
SanitizeContexts == {<<"">>, <<"test context">>}

PostInputs ==
    {Request(Header(BodySize), BodySize, "json", v) :
        v \in EnvelopeInputs \cup ToolCallInputs \cup HeavyCallInputs \cup GuardInputs}
    \cup {Request(h, BodySize, "json", Envelope(<<Str("2.0")>>, <<Str("tools/list")>>, <<>>, <<JNum("1")>>)) :
            h \in {NoHeader, BadHeader, Header(0), Header(-1), Header(BodySize - 1),
                   Header(BodySize + 1), Header(MAX_PAYLOAD_SIZE),
                   Header(MAX_PAYLOAD_SIZE + 1)}}
    \cup {Request(Header(MAX_PAYLOAD_SIZE + 1), MAX_PAYLOAD_SIZE + 1, "json", JNull),
          Request(Header(-1), MAX_PAYLOAD_SIZE + 1, "json", JNull),
          Request(Header(0), 0, "empty", JNull),
          Request(Header(BodySize), BodySize, "malformed", JNull),
          Request(Header(BodySize), BodySize, "badutf8", JNull)}

(***************************************************************************)
(* The server.                                                             *)
(***************************************************************************)
\* the locals of a handler that has no request
IdleLocals ==
    [pc |-> "idle", entry |-> "none", req |-> NoRequest, body |-> <<>>,
     responses |-> <<>>, ret |-> <<>>, raised |-> <<>>, invoked |-> <<>>,
     log |-> <<>>, steps |-> <<>>, bytesRead |-> 0, guardOut |-> <<>>,
     sanOut |-> <<>>]

\* the locals of the request being handled
Locals ==
    [pc |-> pc, entry |-> entry, req |-> req, body |-> body,
     responses |-> responses, ret |-> ret, raised |-> raised,
     invoked |-> invoked, log |-> log, steps |-> steps,
     bytesRead |-> bytesRead, guardOut |-> guardOut, sanOut |-> sanOut]

Init ==
    /\ pc = "idle"
    /\ entry = "none"
    /\ req = NoRequest
    /\ body = <<>>
    /\ responses = <<>>
    /\ ret = <<>>
    /\ raised = <<>>
    /\ invoked = <<>>
    /\ log = <<>>
    /\ steps = <<>>
    /\ bytesRead = 0
    /\ guardOut = <<>>
    /\ parked = IdleLocals
    /\ binding = "original"
    /\ memo = <<>>
    /\ sanOut = <<>>
    /\ lastToolsList = <<>>

\* do_POST is entered with one of the given requests
PostReceiveFrom(inputs) ==
    /\ pc = "idle"
    /\ \E r \in inputs : req' = r
    /\ entry' = "post"
    /\ pc' = "size"
    /\ UNCHANGED <<body, responses, ret, raised, invoked, log, steps, bytesRead,
                   guardOut, lastToolsList, sanOut, memo, binding, parked>>

PostReceive == PostReceiveFrom(PostInputs)

\* content_length = int(...); the size check
PostCheckSize ==
    /\ pc = "size"
    /\ steps' = Append(steps, "size")
    /\ IF ~req.header.numeric
       THEN Fail(Raise("ValueError",
                       <<"invalid literal for int() with base 10">>).exc)
       ELSE IF ContentLength(req.header) > MAX_PAYLOAD_SIZE
       THEN Respond(PayloadTooLargeResponse(ContentLength(req.header)), <<>>)
       ELSE pc' = "read" /\ UNCHANGED <<responses, log>>
    /\ UNCHANGED <<entry, req, body, ret, raised, invoked, bytesRead, guardOut,
                   lastToolsList, sanOut, memo, binding, parked>>

\* post_data = self.rfile.read(content_length)
PostRead ==
    /\ pc = "read"
    /\ steps' = Append(steps, "read")
    /\ bytesRead' = ReadLength(ContentLength(req.header), req.size)
    /\ pc' = "parse"
    /\ UNCHANGED <<entry, req, body, responses, ret, raised, invoked, log,
                   guardOut, lastToolsList, sanOut, memo, binding, parked>>

\* what the bytes read decode to: a body cut short is no JSON text
Decoded(request, length) ==
    IF length = 0 THEN "empty"
    ELSE IF length < request.size /\ request.raw = "json" THEN "malformed"
    ELSE request.raw

\* body = json.loads(post_data.decode('utf-8'))
PostParse ==
    /\ pc = "parse"
    /\ steps' = Append(steps, "parse")
    /\ IF Decoded(req, bytesRead) = "badutf8"
       THEN Fail(Raise("UnicodeDecodeError",
                       <<"'utf-8' codec can't decode byte">>).exc)
            /\ UNCHANGED body
       ELSE IF Decoded(req, bytesRead) # "json"
       THEN Respond(ParseErrorResponse, <<>>) /\ UNCHANGED body
       ELSE /\ body' = <<req.value>>
            /\ pc' = "complexity"
            /\ UNCHANGED <<responses, log>>
    /\ UNCHANGED <<entry, req, ret, raised, invoked, bytesRead, guardOut,
                   lastToolsList, sanOut, memo, binding, parked>>

\* complexity_result = validate_json_complexity(body)
PostComplexity ==
    /\ pc = "complexity"
    /\ steps' = Append(steps, "complexity")
    /\ LET complexity_result == validate_json_complexity(body[1], 0)
       IN  IF complexity_result.valid
           THEN pc' = "shape" /\ UNCHANGED <<responses, log>>
           ELSE IF body[1].t # "dict"
           THEN Fail(AttributeError(body[1], "get").exc)
           ELSE Respond(TooComplexResponse(complexity_result.error,
                                           Get(body[1], "id", JNull)), <<>>)
    /\ UNCHANGED <<entry, req, body, ret, raised, invoked, bytesRead, guardOut,
                   lastToolsList, sanOut, memo, binding, parked>>

\* the JSON-RPC shape check
PostShape ==
    /\ pc = "shape"
    /\ steps' = Append(steps, "shape")
    /\ IF body[1].t # "dict"
       THEN Fail(AttributeError(body[1], "get").exc)
       ELSE IF BadShape(body[1])
       THEN Respond(InvalidRequestResponse(Get(body[1], "id", JNull)), <<>>)
       ELSE pc' = "dispatch" /\ UNCHANGED <<responses, log>>
    /\ UNCHANGED <<entry, req, body, ret, raised, invoked, bytesRead, guardOut,
                   lastToolsList, sanOut, memo, binding, parked>>

\* response = handle_mcp_request(body), then the 200 response
PostDispatch ==
    /\ pc = "dispatch"
    /\ steps' = Append(steps, "dispatch")
    /\ \E error_id \in ErrorIds :
         LET out == handle_mcp_request(body[1], error_id)
         IN  /\ ret' = out.ret
             /\ raised' = out.raised
             /\ invoked' = out.invoked
             /\ IF out.raised # <<>>
                THEN \E outer_id \in ErrorIds :
                        Respond(InternalErrorResponse(out.raised[1], outer_id),
                                out.stderr \o InternalErrorLog(out.raised[1], outer_id))
                ELSE Respond(HttpResponse(200, out.ret[1]), out.stderr)
    /\ UNCHANGED <<entry, req, body, bytesRead, guardOut, lastToolsList, sanOut, memo, binding, parked>>

\* a test calls handle_mcp_request(request) itself, with one of the given
\* requests
DirectCallFrom(inputs) ==
    /\ pc = "idle"
    /\ \E b \in inputs, error_id \in ErrorIds :
         LET out == handle_mcp_request(b, error_id)
         IN  /\ req' = Request(NoHeader, 0, "object", b)
             /\ body' = <<b>>
             /\ ret' = out.ret
             /\ raised' = out.raised
             /\ invoked' = out.invoked
             /\ log' = out.stderr
    /\ entry' = "direct"
    /\ pc' = "done"
    /\ UNCHANGED <<responses, steps, bytesRead, guardOut, lastToolsList, sanOut, memo, binding, parked>>

DirectCall == DirectCallFrom(DirectInputs)

\* a test calls sanitize_error(e, context) itself, up to MaxSanitizeCalls
\* times in a row
SanitizeCall ==
    /\ \/ pc = "idle"
       \/ pc = "done" /\ entry = "sanitize" /\ Len(sanOut) < MaxSanitizeCalls
    /\ \E error \in SanitizeErrors, error_context \in SanitizeContexts,
          error_id \in ErrorIds :
         LET out == sanitize_error(error, error_context, error_id)
         IN  /\ sanOut' = Append(sanOut, <<out.error_id, out.sanitized_message>>)
             /\ log' = log \o out.stderr
    /\ entry' = "sanitize"
    /\ pc' = "done"
    /\ UNCHANGED <<req, body, responses, ret, raised, invoked, steps, bytesRead,
                   guardOut, lastToolsList, memo, binding, parked>>

\* a test calls validate_json_complexity(data) of both copies
GuardCall ==
    /\ pc = "idle"
    /\ \E v \in GuardInputs :
         /\ req' = Request(NoHeader, 0, "object", v)
         /\ body' = <<v>>
         /\ guardOut' = <<validate_json_complexity(v, 0),
                          server_validate_json_complexity(v, 0),
                          GuardWalk(v, 0), ServerWalk(v, 0)>>
    /\ entry' = "guard"
    /\ pc' = "done"
    /\ UNCHANGED <<responses, ret, raised, invoked, log, steps, bytesRead,
                   lastToolsList, sanOut, memo, binding, parked>>

\* the tools of a tools/list result among the envelopes
ToolsListed(envelopes) ==
    IF envelopes # <<>> /\ "result" \in DOMAIN envelopes[1]
       /\ "tools" \in DOMAIN envelopes[1].result
    THEN <<envelopes[1].result.tools>>
    ELSE <<>>

\* an envelope with an error and no result; with a result and no error
IsError(e) == "error" \in DOMAIN e /\ "result" \notin DOMAIN e
IsResult(e) == "result" \in DOMAIN e /\ "error" \notin DOMAIN e

\* the request is over; the next one starts from a fresh handler
EndRequest ==
    /\ pc = "done"
    /\ pc' = "idle"
    /\ entry' = "none"
    /\ req' = NoRequest
    /\ body' = <<>>
    /\ responses' = <<>>
    /\ ret' = <<>>
    /\ raised' = <<>>
    /\ invoked' = <<>>
    /\ log' = <<>>
    /\ steps' = <<>>
    /\ bytesRead' = 0
    /\ guardOut' = <<>>
    /\ sanOut' = <<>>
    /\ lastToolsList' = IF ToolsListed(ret) # <<>> THEN ToolsListed(ret)
                        ELSE lastToolsList
    /\ UNCHANGED <<binding, parked>>

\* a call that is kept has been followed by another request
Followed(kept) ==
    IF kept = <<>> THEN kept ELSE <<[kept[1] EXCEPT !.followed = TRUE]>>

Finish == EndRequest /\ memo' = Followed(memo)

\* the tool, the arguments and the outcome of a tools/call that reached a
\* handler: its result, or the code of its error
CallRecord ==
    [name |-> invoked[1],
     arguments |-> Get(Get(body[1], "params", Dict(<<>>)), "arguments", Dict(<<>>)),
     envelope |-> IF IsResult(ret[1]) THEN [result |-> ret[1].result]
                  ELSE [error |-> [code |-> ret[1].error.code]],
     followed |-> FALSE]

\* the request is over and its tools/call is kept, to compare a later call
\* of the same tool with the same arguments with it
Remember ==
    /\ memo = <<>>
    /\ invoked # <<>>
    /\ ret # <<>>
    /\ memo' = <<CallRecord>>
    /\ EndRequest

Next ==
    \/ PostReceive
    \/ PostCheckSize
    \/ PostRead
    \/ PostParse
    \/ PostComplexity
    \/ PostShape
    \/ PostDispatch
    \/ DirectCall
    \/ SanitizeCall
    \/ GuardCall
    \/ Finish

Spec == Init /\ [][Next]_vars

\* tools/call requests for the eight tools, and requests of other kinds to
\* come in between
RepeatArguments ==
    {<<>>, <<JNum("5")>>}
    \cup {<<Dict(<<K("threat_model", List(Threats(count)))>>)>> : count \in 0..MaxThreats}
    \cup {<<Dict(<<K("include_sections", List(<<Str("mitigations")>>))>>)>>,
          <<Dict(<<K("analysis_stage", Str("deep_dive")),
                   K("repository_context", JNull)>>)>>,
          <<Dict(<<K("app_description", Str("Test app")),
                   K("internet_facing", JBool(FALSE))>>)>>}

RepeatInputs ==
    {Envelope(<<Str("2.0")>>, <<Str("tools/call")>>, ToolParams(<<Str(name)>>, a), i) :
        name \in HandlerNames, a \in RepeatArguments,
        i \in {<<JNum("1")>>, <<Str("abc")>>}}
    \cup {Envelope(<<Str("2.0")>>, <<Str(m)>>, <<>>, <<JNum("1")>>) :
            m \in {"initialize", "tools/list", "bogus"}}

RepeatCall == DirectCallFrom(RepeatInputs)

NextRepeat ==
    \/ RepeatCall
    \/ Remember
    \/ Finish

\* calls of handle_mcp_request one after the other, one earlier tools/call
\* being kept
SpecRepeat == Init /\ [][NextRepeat]_vars

\* the other thread is scheduled: the running thread's locals are put aside
\* and the other thread's locals come in; module globals stay as they are
Switch ==
    /\ parked # Locals
    /\ parked' = Locals
    /\ pc' = parked.pc
    /\ entry' = parked.entry
    /\ req' = parked.req
    /\ body' = parked.body
    /\ responses' = parked.responses
    /\ ret' = parked.ret
    /\ raised' = parked.raised
    /\ invoked' = parked.invoked
    /\ log' = parked.log
    /\ steps' = parked.steps
    /\ bytesRead' = parked.bytesRead
    /\ guardOut' = parked.guardOut
    /\ sanOut' = parked.sanOut
    /\ UNCHANGED <<lastToolsList, memo, binding>>

\* the test binds index_module.get_stride_threat_framework to broken_function
TestPatch ==
    /\ binding = "original"
    /\ binding' = "broken"
    /\ UNCHANGED <<pc, entry, req, body, responses, ret, raised, invoked, log,
                   steps, bytesRead, guardOut, lastToolsList, sanOut, memo, parked>>

\* the test's finally clause binds the name to the original function again
TestRestore ==
    /\ binding = "broken"
    /\ binding' = "original"
    /\ UNCHANGED <<pc, entry, req, body, responses, ret, raised, invoked, log,
                   steps, bytesRead, guardOut, lastToolsList, sanOut, memo, parked>>

\* the request of the test that rebinds the handler
PatchedToolRequest ==
    Envelope(<<Str("2.0")>>, <<Str("tools/call")>>,
             ToolParams(<<Str("get_stride_threat_framework")>>,
                        <<Dict(<<K("app_description", Str("Test app"))>>)>>),
             <<JNum("99")>>)

\* bodies of requests handled at the same time: one for each answer of
\* handle_mcp_request and of the checks before it
ConcBodies ==
    {PatchedToolRequest,
     Envelope(<<Str("2.0")>>, <<Str("tools/list")>>, <<>>, <<JNum("1")>>),
     Envelope(<<Str("2.0")>>, <<Str("initialize")>>, <<>>, <<JNum("1")>>),
     Envelope(<<Str("2.0")>>, <<Str("bogus")>>, <<>>, <<JNum("1")>>),
     Envelope(<<Str("1.0")>>, <<Str("tools/list")>>, <<>>, <<JNum("1")>>),
     Envelope(<<Str("2.0")>>, <<Str("tools/call")>>, <<JNull>>, <<JNum("1")>>),
     Envelope(<<Str("2.0")>>, <<Str("tools/call")>>,
              ToolParams(<<Str("bogus")>>, <<>>), <<JNum("1")>>),
     Envelope(<<Str("2.0")>>, <<Str("tools/call")>>,
              ToolParams(<<Str("generate_threat_report")>>,
                         <<Dict(<<K("threat_model", List(Threats(1)))>>)>>),
              <<JNum("1")>>),
     Envelope(<<Str("2.0")>>, <<Str("tools/call")>>,
              ToolParams(<<Str("get_repository_analysis_guide")>>,
                         <<Dict(<<K("analysis_stage", Str("deep_dive")),
                                  K("repository_context", JNull)>>)>>),
              <<JNum("1")>>),
     List(<<>>),
     JList(<<>>, MAX_ARRAY_LENGTH + 1)}

ConcInputs ==
    {Request(Header(BodySize), BodySize, "json", v) : v \in ConcBodies}
    \cup {Request(Header(MAX_PAYLOAD_SIZE + 1), MAX_PAYLOAD_SIZE + 1, "json", JNull),
          Request(Header(BodySize), BodySize, "malformed", JNull),
          Request(Header(BodySize), BodySize, "badutf8", JNull),
          Request(BadHeader, BodySize, "json", JNull)}

ConcReceive == PostReceiveFrom(ConcInputs)
ConcCall == DirectCallFrom({PatchedToolRequest})

\* do_POST run from its first statement to its last without interruption:
\* the response it writes for the request
DoPost(request, error_id) ==
    LET content_length == ContentLength(request.header)
        length == ReadLength(content_length, request.size)
        b == request.value
        complexity_result == validate_json_complexity(b, 0)
        out == handle_mcp_request(b, error_id)
    IN  IF ~request.header.numeric
        THEN InternalErrorResponse(
                 Raise("ValueError", <<"invalid literal for int() with base 10">>).exc,
                 error_id)
        ELSE IF content_length > MAX_PAYLOAD_SIZE
        THEN PayloadTooLargeResponse(content_length)
        ELSE IF Decoded(request, length) = "badutf8"
        THEN InternalErrorResponse(
                 Raise("UnicodeDecodeError", <<"'utf-8' codec can't decode byte">>).exc,
                 error_id)
        ELSE IF Decoded(request, length) # "json"
        THEN ParseErrorResponse
        ELSE IF ~complexity_result.valid /\ b.t = "dict"
        THEN TooComplexResponse(complexity_result.error, Get(b, "id", JNull))
        ELSE IF b.t # "dict"
        THEN InternalErrorResponse(AttributeError(b, "get").exc, error_id)
        ELSE IF BadShape(b)
        THEN InvalidRequestResponse(Get(b, "id", JNull))
        ELSE IF out.raised # <<>>
        THEN InternalErrorResponse(out.raised[1], error_id)
        ELSE HttpResponse(200, out.ret[1])

NextConc ==
    \/ ConcReceive
    \/ PostCheckSize
    \/ PostRead
    \/ PostParse
    \/ PostComplexity
    \/ PostShape
    \/ PostDispatch
    \/ ConcCall
    \/ Finish
    \/ Switch
    \/ TestPatch
    \/ TestRestore

\* two threads handling requests at the same time, one step at a time in any
\* order, while the test may rebind the handler
SpecConc == Init /\ [][NextConc]_vars

\* a value of the type a property declares, other than its default
OtherValue(type) ==
    CASE type = "string" -> Str("custom")
      [] type = "array" -> List(<<Str("custom")>>)
      [] type = "boolean" -> JBool(FALSE)
      [] type = "integer" -> JNum("5")
      [] OTHER -> Dict(<<K("id", Str("custom"))>>)

\* a property left out, given its declared default, or given another value
SuppliedValues(property) ==
    {<<>>, property.default, <<OtherValue(property.type)>>}

\* the argument maps over the properties from the i-th on
RECURSIVE SchemaEntries(_, _)
SchemaEntries(properties, i) ==
    IF i > Len(properties) THEN {<<>>}
    ELSE {Opt(properties[i].name, v) \o rest :
            v \in SuppliedValues(properties[i]),
            rest \in SchemaEntries(properties, i + 1)}

\* tools/call requests for the eight tools with every choice of the
\* properties of the schema, and with no arguments at all
SchemaInputs ==
    UNION {{Envelope(<<Str("2.0")>>, <<Str("tools/call")>>,
                     ToolParams(<<Str(name)>>, a), <<JNum("1")>>) :
                a \in {<<>>} \cup {<<Dict(e)>> : e \in SchemaEntries(SchemaProperties(name), 1)}} :
           name \in HandlerNames}

SchemaCall == DirectCallFrom(SchemaInputs)

NextSchema ==
    \/ SchemaCall
    \/ Finish

\* calls of the eight tools as their schemas describe them
SpecSchema == Init /\ [][NextSchema]_vars

\* a list of tool names that leaves out the last tool
CapabilityToolsMut ==
    <<"get_stride_threat_framework", "generate_threat_mitigations",
      "create_threat_attack_trees", "calculate_threat_risk_scores",
      "generate_security_tests", "generate_threat_report",
      "validate_threat_coverage">>

\* response_data["tools"] of do_GET
CapabilityTools ==
    <<"get_stride_threat_framework", "generate_threat_mitigations",
      "create_threat_attack_trees", "calculate_threat_risk_scores",
      "generate_security_tests", "generate_threat_report",
      "validate_threat_coverage", "get_repository_analysis_guide">>

\* response_data of do_GET
CapabilitySummary ==
    [name |-> "STRIDE GPT MCP Server",
     version |-> "0.1.0",
     description |-> "Professional threat modeling server using the STRIDE methodology",
     tools |-> CapabilityTools,
     endpoints |-> <<"POST /", "MCP JSON-RPC endpoint">>]

\* a GET request: status 200 and the capability summary
do_GET ==
    /\ pc = "idle"
    /\ entry' = "get"
    /\ pc' = "done"
    /\ responses' = <<HttpResponse(200, CapabilitySummary)>>
    /\ UNCHANGED <<req, body, ret, raised, invoked, log, steps, bytesRead, guardOut,
                   lastToolsList, sanOut, memo, binding, parked>>

NextCatalogue ==
    \/ do_GET
    \/ DirectCall
    \/ Finish

\* GET requests and calls of handle_mcp_request one after the other
SpecCatalogue == Init /\ [][NextCatalogue]_vars

(***************************************************************************)
(* Properties.                                                             *)
(***************************************************************************)
\* handle_mcp_request has been called for the current request and is over
Dispatched ==
    /\ pc = "done"
    /\ \/ entry = "direct"
       \/ entry = "post" /\ steps # <<>> /\ steps[Len(steps)] = "dispatch"

\* every envelope the current request produced, returned or written
Envelopes ==
    {ret[i] : i \in DOMAIN ret}
    \cup {responses[i].envelope : i \in DOMAIN responses}

\* the id the request carries; null when it carries none
RequestId(b) == IF b.t = "dict" THEN Get(b, "id", JNull) ELSE JNull
RequestMethod(b) == Get(b, "method", JNull)
RequestParams(b) == Get(b, "params", Dict(<<>>))
\* params.name and params.arguments; absent when params holds no such member
RequestToolName(b) ==
    IF RequestParams(b).t = "dict" THEN Get(RequestParams(b), "name", JNull)
    ELSE JNull
RequestArguments(b) ==
    IF RequestParams(b).t = "dict" THEN Get(RequestParams(b), "arguments", Dict(<<>>))
    ELSE Dict(<<>>)


\* the catalogue of section 6 of the specification
CatalogueNames ==
    {"get_stride_threat_framework", "generate_threat_mitigations",
     "calculate_threat_risk_scores", "create_threat_attack_trees",
     "generate_security_tests", "generate_threat_report",
     "validate_threat_coverage", "get_repository_analysis_guide"}

InCatalogue(v) == v.t = "str" /\ v.s \in CatalogueNames

\* C1: for every body given to handle_mcp_request and every POST whose body
\* parsed as JSON, the id of every response equals the id of the request
\* (null when the request carries none), on success and on every error path.
C1_ResponseIdIsRequestId ==
    body # <<>> => \A e \in Envelopes : e.id = RequestId(body[1])

\* C2: every envelope returned by handle_mcp_request or written by do_POST
\* has jsonrpc "2.0", an id key and exactly one of result and error.
C2_EnvelopeShape ==
    \A e \in Envelopes :
        /\ "jsonrpc" \in DOMAIN e
        /\ e.jsonrpc = "2.0"
        /\ "id" \in DOMAIN e
        /\ ("result" \in DOMAIN e) # ("error" \in DOMAIN e)

\* C2 witness: a request without jsonrpc and without method was answered,
\* by the dispatcher itself and by do_POST.
C2_Witness ==
    /\ pc = "done"
    /\ body # <<>>
    /\ body[1].t = "dict"
    /\ ~HasKey(body[1], "jsonrpc")
    /\ ~HasKey(body[1], "method")
    /\ Envelopes # {}

\* C3: a tools/call whose params.name is not one of the eight catalogue names
\* (an absent name included) makes handle_mcp_request return the error
\* INVALID_PARAMETER, 'Unknown tool: <name>', no result, no handler invoked.
C3_UnknownToolRejected ==
    (/\ Dispatched
     /\ body[1].t = "dict"
     /\ Is(RequestMethod(body[1]), "tools/call")
     /\ ~InCatalogue(RequestToolName(body[1])))
    => /\ Len(ret) = 1
       /\ IsError(ret[1])
       /\ ret[1].error.code = INVALID_PARAMETER
       /\ ret[1].error.message = <<"Unknown tool: ", PyStr(RequestToolName(body[1]))>>
       /\ invoked = <<>>

\* C4: a tools/list request, after any earlier requests, gets exactly the
\* eight catalogue descriptors, each with name, description and inputSchema,
\* in the order the previous tools/list call returned them.
C4_ToolsListFixed ==
    (/\ Dispatched
     /\ body[1].t = "dict"
     /\ Is(RequestMethod(body[1]), "tools/list"))
    => /\ Len(ret) = 1
       /\ IsResult(ret[1])
       /\ DOMAIN ret[1].result = {"tools"}
       /\ LET tools == ret[1].result.tools
          IN  /\ Len(tools) = 8
              /\ {tools[i].name : i \in DOMAIN tools} = CatalogueNames
              /\ \A i \in DOMAIN tools :
                    DOMAIN tools[i] = {"name", "description", "inputSchema"}
              /\ lastToolsList # <<>> => tools = lastToolsList[1]

\* C4 witness: a tools/list answered after an earlier tools/list.
C4_Witness ==
    /\ Dispatched
    /\ lastToolsList # <<>>
    /\ ToolsListed(ret) # <<>>

C6_ProtocolVersionEchoed ==
    (/\ Dispatched
     /\ body[1].t = "dict"
     /\ Is(RequestMethod(body[1]), "initialize")
     /\ RequestParams(body[1]).t = "dict"
     /\ HasKey(RequestParams(body[1]), "protocolVersion"))
    => /\ Len(ret) = 1
       /\ IsResult(ret[1])
       /\ ret[1].result.protocolVersion
            = Get(RequestParams(body[1]), "protocolVersion", JNull).s

\* a limit is violated somewhere in the structure of v, v being at depth d
RECURSIVE ViolatesLimit(_, _)
ViolatesLimit(v, d) ==
    \/ d > MAX_JSON_DEPTH
    \/ v.t = "dict" /\ v.n > MAX_OBJECT_KEYS
    \/ v.t = "list" /\ v.n > MAX_ARRAY_LENGTH
    \/ v.t = "str" /\ v.n > MAX_STRING_LENGTH
    \/ v.t = "dict" /\ \E i \in DOMAIN v.kids : v.kids[i].klen > MAX_STRING_LENGTH
    \/ v.t \in {"dict", "list"} /\ v.n > Len(v.kids) /\ d + 1 > MAX_JSON_DEPTH
    \/ v.t = "dict" /\ \E i \in DOMAIN v.kids : ViolatesLimit(v.kids[i].v, d + 1)
    \/ v.t = "list" /\ \E i \in DOMAIN v.kids : ViolatesLimit(v.kids[i], d + 1)

GuardCalled == pc = "done" /\ entry = "guard"

\* C7: validate_json_complexity(V) returns valid = false exactly when V
\* violates a limit somewhere (a node deeper than MAX_JSON_DEPTH, too many
\* keys, too long a sequence, too long a string), and valid = true with error
\* null otherwise.
C7_GuardDecidesLimits ==
    GuardCalled =>
        /\ guardOut[1].valid = ~ViolatesLimit(body[1], 0)
        /\ guardOut[1].valid => guardOut[1].error = <<>>
        /\ ~guardOut[1].valid => guardOut[1].error # <<>>

\* C7 witness: a scalar pushed one level below the depth limit was rejected.
C7_Witness ==
    /\ GuardCalled
    /\ ~guardOut[1].valid
    /\ guardOut[1].error[1] = "JSON nesting depth exceeds maximum of "

\* v holds, at some nesting level, a mapping with a key longer than
\* MAX_STRING_LENGTH
RECURSIVE HasLongKey(_)
HasLongKey(v) ==
    \/ v.t = "dict" /\ \E i \in DOMAIN v.kids : v.kids[i].klen > MAX_STRING_LENGTH
    \/ v.t = "dict" /\ \E i \in DOMAIN v.kids : HasLongKey(v.kids[i].v)
    \/ v.t = "list" /\ \E i \in DOMAIN v.kids : HasLongKey(v.kids[i])

\* C8: each copy of the guard (api/index.py, server/validation.py) returns
\* valid = false for a mapping holding, at any level, a key longer than
\* MAX_STRING_LENGTH, and so the copies agree on the valid flag.
C8_KeyLengthInBothCopies ==
    GuardCalled =>
        /\ HasLongKey(body[1]) => ~guardOut[1].valid /\ ~guardOut[2].valid
        /\ guardOut[1].valid = guardOut[2].valid

\* the method value as the message shows it: the text of a string, str() of
\* any other value, None when there is no method
MethodAsReceived(b) ==
    IF ~HasKey(b, "method") THEN "None"
    ELSE IF Get(b, "method", JNull).t = "str" THEN Get(b, "method", JNull).s
    ELSE PyStr(Get(b, "method", JNull))

\* C9: a request whose method is none of initialize, tools/list, tools/call
\* (a missing method included) gets the error -32601, 'Method not found: '
\* followed by the method value, and no result.
C9_MethodNotFound ==
    (/\ Dispatched
     /\ body[1].t = "dict"
     /\ ~Is(RequestMethod(body[1]), "initialize")
     /\ ~Is(RequestMethod(body[1]), "tools/list")
     /\ ~Is(RequestMethod(body[1]), "tools/call"))
    => /\ Len(ret) = 1
       /\ IsError(ret[1])
       /\ ret[1].error.code = -32601
       /\ ret[1].error.message = <<"Method not found: ", MethodAsReceived(body[1])>>

\* C9 witness: a request without method was answered by the dispatcher.
C9_Witness ==
    /\ Dispatched
    /\ body[1].t = "dict"
    /\ ~HasKey(body[1], "method")
    /\ Len(ret) = 1

\* the handler of a catalogue tool raises on the arguments of the request
HandlerRaises(b) ==
    /\ b.t = "dict"
    /\ Is(RequestMethod(b), "tools/call")
    /\ RequestParams(b).t = "dict"
    /\ InCatalogue(RequestToolName(b))
    /\ ~CallTool(RequestToolName(b), RequestArguments(b)).ok

\* C10: when the handler of a catalogue tool raises during tools/call, the
\* envelope carries TOOL_EXECUTION_FAILED, exactly the generic message of the
\* sanitizer with the id that was logged, nothing of the exception's message
\* or type, no result, and the id of the request.
C10_ToolFailureSanitized ==
    (Dispatched /\ HandlerRaises(body[1]))
    => /\ Len(ret) = 1
       /\ IsError(ret[1])
       /\ ret[1].error.code = TOOL_EXECUTION_FAILED
       /\ ret[1].id = RequestId(body[1])
       /\ Len(log) = 1
       /\ log[1].type # ""
       /\ ret[1].error.message
            = <<"An internal error occurred. Error ID: ", log[1].id>>
       /\ \A i \in DOMAIN ret[1].error.message :
            /\ ret[1].error.message[i] # log[1].type
            /\ \A j \in DOMAIN log[1].message :
                 ret[1].error.message[i] # log[1].message[j]

\* C10 witness: get_stride_threat_framework called with arguments null, as
\* test_tool_execution_error does, was answered.
C10_Witness ==
    /\ Dispatched
    /\ HandlerRaises(body[1])
    /\ Is(RequestToolName(body[1]), "get_stride_threat_framework")
    /\ RequestArguments(body[1]) = JNull
    /\ Len(ret) = 1

\* sanitize_error was called by a test: the calls so far, oldest first
SanitizeCalls == IF entry = "sanitize" THEN DOMAIN sanOut ELSE {}

\* text is an id of 8 hexadecimal characters that uuid4 can yield
IsErrorId(text) ==
    \E k \in 1..MaxErrorIds :
        /\ text = JoinChars(ErrorIdChars(k))
        /\ Len(ErrorIdChars(k)) = 8
        /\ \A c \in DOMAIN ErrorIdChars(k) :
               \E h \in DOMAIN HexDigits : ErrorIdChars(k)[c] = HexDigits[h]

\* C11: the client message sanitize_error returns is exactly "An internal
\* error occurred. Error ID: " followed by the returned id of 8 hexadecimal
\* characters, whatever the exception and the context: two calls that drew
\* the same id returned the same message.
C11_ClientMessageIndependent ==
    /\ \A i \in SanitizeCalls :
          /\ IsErrorId(sanOut[i][1])
          /\ sanOut[i][2] = <<"An internal error occurred. Error ID: ", sanOut[i][1]>>
    /\ \A i, j \in SanitizeCalls :
          sanOut[i][1] = sanOut[j][1] => sanOut[i][2] = sanOut[j][2]

\* two calls with different exception types, messages and contexts, one of
\* the messages naming a file path, drew the same id
C11_Witness ==
    /\ entry = "sanitize"
    /\ Len(sanOut) = 2
    /\ sanOut[1][1] = sanOut[2][1]
    /\ log[1].type # log[2].type
    /\ log[1].message # log[2].message
    /\ log[1].context # log[2].context
    /\ log[2].message = <<"Database connection failed at /internal/path/db.py line 42">>

\* C12: over a sequence of sanitize_error calls, the id a call returns
\* differs from the id every earlier call returned.
C12_ErrorIdsUnique ==
    \A i, j \in SanitizeCalls : i < j => sanOut[i][1] # sanOut[j][1]

\* the steps of do_POST in the order of the source
StepOrder == <<"size", "read", "parse", "complexity", "shape", "dispatch">>

\* the current request is a well-formed tools/call for a catalogue tool
CallsCatalogueTool(b) ==
    /\ b.t = "dict"
    /\ Is(RequestMethod(b), "tools/call")
    /\ InCatalogue(RequestToolName(b))

\* the checks do_POST makes before it dispatches all passed
EarlierStepsPassed ==
    /\ req.header.numeric
    /\ ContentLength(req.header) <= MAX_PAYLOAD_SIZE
    /\ bytesRead <= req.size
    /\ body = <<req.value>>
    /\ ~ViolatesLimit(body[1], 0)
    /\ body[1].t = "dict"
    /\ Is(Get(body[1], "jsonrpc", JNull), "2.0")
    /\ Truthy(Get(body[1], "method", JNull))

\* the state part of C13
StepsInOrder ==
    /\ entry = "post" =>
          /\ Len(steps) <= Len(StepOrder)
          /\ \A i \in DOMAIN steps : steps[i] = StepOrder[i]
          /\ Len(responses) <= 1
          /\ responses # <<>> <=> pc = "done"
          /\ pc = "done" /\ steps # StepOrder => responses[1].status # 200
          /\ responses # <<>> /\ responses[1].status # 200 => invoked = <<>>
          /\ invoked # <<>> => steps = StepOrder /\ EarlierStepsPassed
    /\ Len(invoked) <= 1
    /\ invoked # <<>> =>
          /\ CallsCatalogueTool(body[1])
          /\ invoked[1] = RequestToolName(body[1]).s

\* C13: the steps of one do_POST request occur in the order size check, body
\* read, JSON parse, complexity validation, shape validation,
\* handle_mcp_request; the first failing step writes an error response and
\* ends the request, no later step runs; a tool handler is invoked at most
\* once per request, and only when every earlier step succeeded, the method
\* is tools/call and the name is in the catalogue.
C13_StepsInOrder ==
    /\ []StepsInOrder
    /\ [][responses # <<>> => pc' = "idle"]_vars

\* a POST went through all six steps and its tool handler ran
C13_Witness ==
    /\ entry = "post"
    /\ pc = "done"
    /\ steps = StepOrder
    /\ invoked # <<>>
    /\ responses[1].status = 200

\* do_POST wrote its response for the current request
Answered == entry = "post" /\ pc = "done" /\ responses # <<>>

\* the error part of the response do_POST wrote
AnsweredError(code, message) ==
    /\ IsError(responses[1].envelope)
    /\ responses[1].envelope.error.code = code
    /\ responses[1].envelope.error.message = message

\* the bytes do_POST read are no JSON text
Unparseable ==
    /\ Answered
    /\ Len(steps) >= 3
    /\ Decoded(req, bytesRead) \in {"empty", "malformed", "badutf8"}

\* C14: every POST body that cannot be parsed as JSON (empty, malformed, or
\* not valid UTF-8) is answered with code -32700 'Parse error' and id null,
\* and the dispatcher is not invoked.
C14_UnparseableIsParseError ==
    Unparseable =>
        /\ AnsweredError(-32700, <<"Parse error">>)
        /\ responses[1].envelope.id = JNull
        /\ ret = <<>> /\ raised = <<>> /\ invoked = <<>>
        /\ steps = SubSeq(StepOrder, 1, 3)

\* the body parsed and passed the guard, and is no well-shaped request
NotWellShaped(b) ==
    \/ b.t # "dict"
    \/ ~HasKey(b, "jsonrpc")
    \/ ~Is(Get(b, "jsonrpc", JNull), "2.0")
    \/ ~HasKey(b, "method")
    \/ Is(Get(b, "method", JNull), "")

\* C15: every POST body that parses as JSON and passes the complexity guard
\* but is not a well-shaped request (jsonrpc missing or not "2.0", method
\* missing or empty, or the body no JSON object) is answered with -32600
\* 'Invalid Request' before the dispatcher is invoked.
C15_BadShapeIsInvalidRequest ==
    (/\ Answered
     /\ body # <<>>
     /\ ~ViolatesLimit(body[1], 0)
     /\ NotWellShaped(body[1]))
    => /\ AnsweredError(-32600, <<"Invalid Request">>)
       /\ ret = <<>> /\ raised = <<>> /\ invoked = <<>>
       /\ steps = SubSeq(StepOrder, 1, 5)

\* the 413 answer of the size check
RejectedTooLarge ==
    /\ responses # <<>>
    /\ IsError(responses[1].envelope)
    /\ responses[1].envelope.error.code = PAYLOAD_TOO_LARGE
    /\ responses[1].status = 413

\* C16: do_POST never reads more than MAX_PAYLOAD_SIZE bytes of body: for
\* every declared Content-Length (absent, zero, negative, above the limit) the
\* request is rejected with PAYLOAD_TOO_LARGE before any byte is read, exactly
\* when the declared length exceeds the limit, or at most MAX_PAYLOAD_SIZE
\* bytes are read.
C16_ReadBounded ==
    entry = "post" =>
        /\ bytesRead <= MAX_PAYLOAD_SIZE
        /\ RejectedTooLarge => bytesRead = 0 /\ steps = <<"size">>
        /\ (pc # "size" /\ req.header.numeric) =>
              (RejectedTooLarge <=> ContentLength(req.header) > MAX_PAYLOAD_SIZE)

\* handle_mcp_request has just called the tool that was kept, with the
\* arguments that were kept
SameCall ==
    /\ Dispatched
    /\ memo # <<>>
    /\ invoked # <<>>
    /\ CallRecord.name = memo[1].name
    /\ CallRecord.arguments = memo[1].arguments

AsAlone ==
    \/ /\ entry = "post"
       /\ \E error_id \in ErrorIds : responses = <<DoPost(req, error_id)>>
    \/ /\ entry = "direct"
       /\ \E error_id \in ErrorIds :
             /\ ret = handle_mcp_request(body[1], error_id).ret
             /\ raised = handle_mcp_request(body[1], error_id).raised

\* the request being handled is over, and the handler bindings are the ones
\* of module load
HandledUnderLoadBindings ==
    /\ pc = "done"
    /\ entry \in {"post", "direct"}
    /\ binding = "original"

ErrorCodesSent == {e.error.code : e \in {x \in Envelopes : IsError(x)}}

\* a tool handler was called for the current request and raised
ToolFailed == invoked # <<>> /\ log # <<>>

\* C19 as stated: every error code placed in a response is one of -32700,
\* -32600, -32601 and -32603, the named codes being aliases of -32600 or
\* -32603.
C19_FourCodes ==
    ErrorCodesSent \subseteq {-32700, -32600, -32601, -32603}

\* C19: every error code placed in a response is one of -32700, -32600,
\* -32601, -32603 and -32604; -32604 is TOOL_EXECUTION_FAILED, a wire value
\* of its own, sent exactly when a tool handler raised; INVALID_PARAMETER is
\* -32603, PAYLOAD_TOO_LARGE and PAYLOAD_TOO_COMPLEX are -32600.
C19_FiveCodes ==
    /\ ErrorCodesSent \subseteq {-32700, -32600, -32601, -32603, -32604}
    /\ ToolFailed => ErrorCodesSent = {-32604}
    /\ ~ToolFailed => -32604 \notin ErrorCodesSent
    /\ {INVALID_PARAMETER, PAYLOAD_TOO_LARGE, PAYLOAD_TOO_COMPLEX} \subseteq {-32600, -32603}

\* a POST whose tool handler raised is answered 200 with code -32604
C19_Witness ==
    /\ Answered
    /\ ToolFailed
    /\ responses[1].status = 200
    /\ ErrorCodesSent = {-32604}

\* a tools/call has returned the result of a handler
SuccessfulCall ==
    /\ Dispatched
    /\ ret # <<>>
    /\ IsResult(ret[1])
    /\ invoked # <<>>

\* what the handler of the current request returns for its arguments
HandlerValue ==
    CallTool(RequestToolName(body[1]), RequestArguments(body[1])).value

\* C20: for every successful tools/call, result.content is an array of
\* exactly one element {type: "text", text}; for generate_threat_report text
\* is the handler's markdown string unchanged, for each of the other seven
\* tools text is a JSON serialization that parses back to exactly the
\* structure the handler returned.
C20_ContentRoundTrip ==
    SuccessfulCall =>
        LET content == ret[1].result.content
        IN  /\ Len(content) = 1
            /\ DOMAIN content[1] = {"type", "text"}
            /\ content[1].type = "text"
            /\ IF invoked[1] = "generate_threat_report"
               THEN /\ content[1].text.format = "markdown"
                    /\ content[1].text.parts = HandlerValue
               ELSE /\ content[1].text.format = "json"
                    /\ ParseValue(content[1].text.tokens, 1).next
                           = Len(content[1].text.tokens) + 1
                    /\ JsonLoads(content[1].text) = HandlerValue
            /\ entry = "post" => responses[1].envelope = ret[1]

\* a POST for validate_threat_coverage with a threat model of two threats is
\* answered with the serialized structure, the threat model nested in it
C20_Witness ==
    /\ SuccessfulCall
    /\ entry = "post"
    /\ invoked[1] = "validate_threat_coverage"
    /\ Get(RequestArguments(body[1]), "threat_model", JNull) = List(Threats(2))
    /\ Get(JsonLoads(ret[1].result.content[1].text), "threat_model", JNull)
           = List(Threats(2))
    /\ Len(ret[1].result.content[1].text.tokens) > 10

\* generate_threat_report returned its report for the current request
ReportReturned ==
    /\ SuccessfulCall
    /\ invoked[1] = "generate_threat_report"

\* the parts of the markdown string returned
ReportParts == ret[1].result.content[1].text.parts

\* the threat_model argument of the current request, a list with no element
\* when it is absent
RequestThreatModel == Get(RequestArguments(body[1]), "threat_model", List(<<>>))

\* the figure printed after "Total Threats Identified"
ThreatFigures ==
    {ReportParts[i + 1] : i \in {j \in 1..(Len(ReportParts) - 1) :
                                   ReportParts[j] = "**Total Threats Identified:** "}}

\* C21: generate_threat_report returns a markdown string that contains
\* "# STRIDE Threat Model Report" and whose "Total Threats Identified" figure
\* is the number of elements of threat_model when that is a list, and 0 when
\* it is absent or no list.
C21_ThreatCount ==
    ReportReturned =>
        /\ \E i \in DOMAIN ReportParts : ReportParts[i] = "# STRIDE Threat Model Report"
        /\ IF RequestThreatModel.t = "list"
           THEN ThreatFigures = {ToString(RequestThreatModel.n)}
           ELSE ThreatFigures = {"0"}

\* a report for a threat model of two threats says 2
C21_Witness ==
    /\ ReportReturned
    /\ RequestThreatModel = List(Threats(2))
    /\ ThreatFigures = {"2"}

\* do_POST has answered a request whose declared size or whose parsed body
\* violates a payload limit
LimitViolationAnswered ==
    /\ Answered
    /\ req.header.numeric
    /\ \/ ContentLength(req.header) > MAX_PAYLOAD_SIZE
       \/ body # <<>> /\ ViolatesLimit(body[1], 0)

\* the message names a limit and a value above it
StatesLimitAndValue(message) ==
    \E limit \in {MAX_PAYLOAD_SIZE, MAX_JSON_DEPTH, MAX_OBJECT_KEYS,
                  MAX_ARRAY_LENGTH, MAX_STRING_LENGTH} :
        /\ \E i \in DOMAIN message : message[i] = ToString(limit)
        /\ \E i \in DOMAIN message, over \in 1..(MaxOver + MaxExtraDepth) :
               message[i] = ToString(limit + over)

\* the answer carries one of the two payload codes with its own status and
\* sanitize_error was not called
PayloadErrorAnswer ==
    /\ IsError(responses[1].envelope)
    /\ \/ /\ responses[1].status = 413
          /\ responses[1].envelope.error.code = PAYLOAD_TOO_LARGE
       \/ /\ responses[1].status = 400
          /\ responses[1].envelope.error.code = PAYLOAD_TOO_COMPLEX
    /\ responses[1].envelope.error.message[1]
           \in {"Payload size ", "Payload complexity validation failed: "}
    /\ log = <<>>

\* C22: every payload-limit violation seen by do_POST (a declared size over
\* the limit, or a depth, key-count, key-length, array-length or
\* string-length violation anywhere in a parsed body of any JSON type) is
\* answered with the PAYLOAD_TOO_LARGE or PAYLOAD_TOO_COMPLEX code and a
\* message stating the violated limit and the observed value, never with
\* the sanitized internal-error message.
C22_LimitViolationNamed ==
    LimitViolationAnswered =>
        /\ PayloadErrorAnswer
        /\ StatesLimitAndValue(responses[1].envelope.error.message)

\* C23: handle_mcp_request never lets an exception escape: for every
\* JSON-object body, whatever the JSON types of method, params, params.name
\* and params.arguments, it returns a JSON-RPC envelope, and a failure caused
\* by the caller's data is sanitized inside the dispatcher.
C23_NoExceptionEscapes ==
    (Dispatched /\ body[1].t = "dict") =>
        /\ raised = <<>>
        /\ Len(ret) = 1
        /\ ret[1].jsonrpc = "2.0"
        /\ \A i \in DOMAIN log : log[i].context[1] = "Tool execution: "

\* the arguments with the declared default added for every property the
\* caller left out
RECURSIVE MissingDefaults(_, _, _)
MissingDefaults(properties, arguments, i) ==
    IF i > Len(properties) THEN <<>>
    ELSE (IF HasKey(arguments, properties[i].name) THEN <<>>
          ELSE Opt(properties[i].name, properties[i].default))
         \o MissingDefaults(properties, arguments, i + 1)

DefaultsSupplied(name, arguments) ==
    Dict(arguments.kids \o MissingDefaults(SchemaProperties(name), arguments, 1))

\* where the output of a tool carries a parameter
EchoedAt(name, param) ==
    CASE name = "get_stride_threat_framework" -> <<"application_context", param>>
      [] param = "threats" /\ name # "calculate_threat_risk_scores" -> <<"threat_context">>
      [] param = "analysis_stage" -> <<"current_stage">>
      [] OTHER -> <<param>>

\* the member of a structure at a path of keys, <<>> when there is none
RECURSIVE At(_, _, _)
At(value, path, i) ==
    IF i > Len(path) THEN <<value>>
    ELSE IF value.t # "dict" \/ ~HasKey(value, path[i]) THEN <<>>
    ELSE At(Get(value, path[i], JNull), path, i + 1)

\* the text of a tool carries the value of a parameter as it was supplied
Echoes(name, param, value, text) ==
    IF text.format = "markdown"
    THEN value.t = "str" /\ \E i \in DOMAIN text.parts : text.parts[i] = value.s
    ELSE At(JsonLoads(text), EchoedAt(name, param), 1) = <<value>>

\* the text of the answer to the current tools/call
AnswerText == ret[1].result.content[1].text

\* the properties of the called tool that the caller supplied
SuppliedProperties ==
    {property \in {SchemaProperties(invoked[1])[i] :
                        i \in DOMAIN SchemaProperties(invoked[1])} :
        HasKey(RequestArguments(body[1]), property.name)}

\* every successful call of one of the tools echoes what the caller supplied
EchoesSupplied(tools) ==
    (SuccessfulCall /\ invoked[1] \in tools) =>
        \A property \in SuppliedProperties :
            Echoes(invoked[1], property.name,
                   Get(RequestArguments(body[1]), property.name, JNull), AnswerText)

\* a successful call answers as the call with the declared defaults given
DefaultsAsOmitted ==
    SuccessfulCall =>
        LET filled == CallTool(RequestToolName(body[1]),
                               DefaultsSupplied(invoked[1], RequestArguments(body[1])))
        IN  /\ filled.ok
            /\ AnswerText = ToolText(RequestToolName(body[1]), filled.value)

ListedNames == {lastToolsList[1][i].name : i \in DOMAIN lastToolsList[1]}

\* a GET request has been answered
GetAnswered == pc = "done" /\ entry = "get"

\* a tools/call whose params is a mapping has been dispatched
NamedCall ==
    /\ Dispatched
    /\ body[1].t = "dict"
    /\ Is(RequestMethod(body[1]), "tools/call")
    /\ RequestParams(body[1]).t = "dict"

\* C25: once tools/list has answered, the eight names it returned are the
\* names the GET capability summary lists, and a tools/call invokes a
\* handler exactly for these names; every other name, an absent one
\* included, yields 'Unknown tool'.
C25_SameEightNames ==
    lastToolsList # <<>> =>
        /\ Len(lastToolsList[1]) = 8
        /\ Cardinality(ListedNames) = 8
        /\ GetAnswered =>
                LET tools == responses[1].envelope.tools
                IN  /\ Len(tools) = 8
                    /\ {tools[i] : i \in DOMAIN tools} = ListedNames
        /\ NamedCall =>
                LET tool_name == RequestToolName(body[1])
                IN  IF tool_name.t = "str" /\ tool_name.s \in ListedNames
                    THEN invoked = <<tool_name.s>>
                    ELSE /\ invoked = <<>>
                         /\ IsError(ret[1])
                         /\ ret[1].error.message[1] = "Unknown tool: "

\* a GET request was answered after a tools/list request
C25_Witness ==
    /\ GetAnswered
    /\ lastToolsList # <<>>
    /\ responses[1].status = 200
    /\ Len(responses[1].envelope.tools) = 8

\* the checks that fail on a depth-first, pre-order walk of v from depth d,
\* in the order the walk meets them: at a node its depth, then its size,
\* then for each child in turn the length of its key and the child itself
RECURSIVE Violations(_, _)
RECURSIVE KidViolations(_, _, _)
KidViolations(v, i, d) ==
    IF i > Len(v.kids)
    THEN IF v.n > Len(v.kids) /\ d + 1 > MAX_JSON_DEPTH THEN <<"depth">> ELSE <<>>
    ELSE (IF v.t = "dict" /\ v.kids[i].klen > MAX_STRING_LENGTH
          THEN <<"key">> ELSE <<>>)
         \o Violations(IF v.t = "dict" THEN v.kids[i].v ELSE v.kids[i], d + 1)
         \o KidViolations(v, i + 1, d)

Violations(v, d) ==
    (IF d > MAX_JSON_DEPTH THEN <<"depth">> ELSE <<>>)
    \o (IF v.t = "dict" /\ v.n > MAX_OBJECT_KEYS THEN <<"keys">> ELSE <<>>)
    \o (IF v.t = "list" /\ v.n > MAX_ARRAY_LENGTH THEN <<"array">> ELSE <<>>)
    \o (IF v.t = "str" /\ v.n > MAX_STRING_LENGTH THEN <<"string">> ELSE <<>>)
    \o (IF v.t \in {"dict", "list"} THEN KidViolations(v, 1, d) ELSE <<>>)

\* the check an error message of either copy of the guard names
CheckNamed(error) ==
    CASE error[1] \in {"JSON nesting depth exceeds maximum of ", "JSON depth exceeded"}
            -> "depth"
      [] error[1] \in {"Object contains ", "Too many object keys"} -> "keys"
      [] error[1] = "Object key length exceeds maximum of " -> "key"
      [] error[1] \in {"Array length ", "Array too large"} -> "array"
      [] error[1] \in {"String length ", "String too long"} -> "string"
      [] OTHER -> "none"

\* a result of the guard reports the first check that fails on the walk
ReportsFirst(result) ==
    IF Violations(body[1], 0) = <<>> THEN result.valid
    ELSE /\ ~result.valid
         /\ CheckNamed(result.error) = Head(Violations(body[1], 0))

\* C26: each copy of validate_json_complexity reports the first violation
\* met in a depth-first, pre-order walk: at a node the depth check, then the
\* size check, then for each child in key or index order the length of its
\* key and then the child; the error names the check that fails first in
\* this order, whatever fails later in the walk.
C26_FirstViolationReported ==
    GuardCalled =>
        /\ ReportsFirst(guardOut[1])
        /\ ReportsFirst(guardOut[2])

\* the depth of the deepest node of v, v being at depth d and every child
\* one level below its parent
RECURSIVE Deepest(_, _)
Deepest(v, d) ==
    LET below == IF v.t \notin {"dict", "list"} THEN {}
                 ELSE {Deepest(IF v.t = "dict" THEN v.kids[i].v ELSE v.kids[i], d + 1) :
                          i \in DOMAIN v.kids}
                      \cup (IF v.n > Len(v.kids) THEN {d + 1} ELSE {})
    IN  CHOOSE m \in below \cup {d} : \A k \in below \cup {d} : k <= m

\* the sizes of the nodes of v of one type: key counts of mappings, lengths
\* of sequences, lengths of strings, keys included
RECURSIVE Sizes(_, _)
Sizes(v, type) ==
    (IF v.t = type THEN {v.n} ELSE {})
    \cup (IF v.t = "dict" /\ type = "str"
          THEN {v.kids[i].klen : i \in DOMAIN v.kids} ELSE {})
    \cup (IF v.t \notin {"dict", "list"} THEN {}
          ELSE UNION {Sizes(IF v.t = "dict" THEN v.kids[i].v ELSE v.kids[i], type) :
                         i \in DOMAIN v.kids})

\* C27: every limit is compared strictly, the root being at depth 0 and each
\* child, scalar leaves included, one level below its parent: a value whose
\* deepest node is at depth 20 or less, whose mappings have 500 keys or
\* less, whose sequences have 2000 elements or less and whose strings have
\* 500,000 characters or less is accepted; a node at depth 21, 501 keys,
\* 2001 elements or 500,001 characters are rejected.
C27_StrictLimits ==
    GuardCalled =>
        LET v == body[1]
            within == /\ Deepest(v, 0) <= 20
                      /\ \A n \in Sizes(v, "dict") : n <= 500
                      /\ \A n \in Sizes(v, "list") : n <= 2000
                      /\ \A n \in Sizes(v, "str") : n <= 500000
            beyond == \/ Deepest(v, 0) >= 21
                      \/ \E n \in Sizes(v, "dict") : n >= 501
                      \/ \E n \in Sizes(v, "list") : n >= 2001
                      \/ \E n \in Sizes(v, "str") : n >= 500001
        IN  /\ within => guardOut[1].valid
            /\ beyond => ~guardOut[1].valid
            /\ (v.t = "dict" /\ v.n = 501) => guardOut[1].error[2] = "501"
            /\ (v.t = "list" /\ v.n = 2001) => guardOut[1].error[2] = "2001"
            /\ (v.t = "str" /\ v.n = 500001) => guardOut[1].error[2] = "500001"

\* a string of exactly 500,000 characters at depth exactly 20 was accepted
C27_Witness ==
    /\ GuardCalled
    /\ Deepest(body[1], 0) = 20
    /\ 500000 \in Sizes(body[1], "str")
    /\ guardOut[1].valid

\* get_repository_analysis_guide has been called through tools/call with a
\* mapping of arguments
GuideCalled ==
    /\ NamedCall
    /\ Is(RequestToolName(body[1]), "get_repository_analysis_guide")
    /\ RequestArguments(body[1]).t = "dict"

\* the stage the caller asked for
RequestedStage == Get(RequestArguments(body[1]), "analysis_stage", Str("initial"))

\* the keys that belong to one stage only, and those of the requested one
StageKeys ==
    {"prioritized_reading_strategy", "initial_reconnaissance", "deep_dive_analysis",
     "technology_guides", "validation_checklist", "next_steps"}

RequestedStageKeys ==
    IF Is(RequestedStage, "initial")
    THEN {"prioritized_reading_strategy", "initial_reconnaissance", "next_steps"}
    ELSE IF Is(RequestedStage, "deep_dive")
    THEN {"deep_dive_analysis", "technology_guides", "next_steps"}
    ELSE IF Is(RequestedStage, "validation")
    THEN {"validation_checklist", "next_steps"}
    ELSE {}

\* C28: get_repository_analysis_guide returns the stage-specific sections of
\* exactly the requested stage and next_steps for the three stages, none of
\* them and the guidance 'Unknown analysis stage...' for any other value,
\* without raising; for every stage value the result holds the six common
\* members, repository_context as supplied (default empty) and current_stage
\* equal to the requested stage (default initial).
C28_StageSections ==
    GuideCalled =>
        /\ invoked = <<"get_repository_analysis_guide">>
        /\ IsResult(ret[1])
        /\ LET guide == JsonLoads(AnswerText)
               keys == {guide.kids[i].k : i \in DOMAIN guide.kids}
           IN  /\ keys \cap StageKeys = RequestedStageKeys
               /\ {"analysis_framework", "context_management", "output_template",
                   "github_mcp_integration", "analysis_guidance",
                   "repository_context", "current_stage"} \subseteq keys
               /\ RequestedStageKeys = {} =>
                     Get(guide, "analysis_guidance", JNull) =
                        Str("Unknown analysis stage. Valid stages: 'initial', 'deep_dive', 'validation'")
               /\ Get(guide, "current_stage", JNull) = RequestedStage
               /\ Get(guide, "repository_context", JNull) =
                     Get(RequestArguments(body[1]), "repository_context", Dict(<<>>))

\* the number of nodes of v, itself included
RECURSIVE Nodes(_)
RECURSIVE KidNodes(_, _)
KidNodes(v, i) ==
    IF i > Len(v.kids) THEN 0
    ELSE Nodes(IF v.t = "dict" THEN v.kids[i].v ELSE v.kids[i]) + KidNodes(v, i + 1)

Nodes(v) ==
    IF v.t \notin {"dict", "list"} THEN 1
    ELSE 1 + KidNodes(v, 1) + (IF v.n > Len(v.kids) THEN v.n - Len(v.kids) ELSE 0)

\* the number of calls a walk stands for
RECURSIVE CallCount(_, _)
CallCount(calls, i) ==
    IF i > Len(calls) THEN 0 ELSE calls[i].times + CallCount(calls, i + 1)

\* a walk ends after at most one call per node, no call is deeper than 21, a
\* call at depth 21 does not look at its value, and a call that enters the
\* loop over the children has at most 500 keys or 2000 elements to go
\* through
BoundedWalk(walk, result) ==
    /\ walk.valid = result.valid
    /\ walk.calls # <<>>
    /\ CallCount(walk.calls, 1) <= Nodes(body[1])
    /\ \A i \in DOMAIN walk.calls :
          LET call == walk.calls[i]
          IN  /\ call.depth <= 21
              /\ call.depth + 1 <= 22
              /\ call.depth = 21 => ~call.inspected /\ ~call.expanded
              /\ call.expanded /\ call.type = "dict" => call.size <= 500
              /\ call.expanded /\ call.type = "list" => call.size <= 2000

\* C29: each copy of validate_json_complexity terminates, after at most one
\* call per node of the value, and never descends below depth
\* MAX_JSON_DEPTH + 1: a call at depth 21 returns without inspecting its
\* value, so at most 22 calls are active at a time whatever the nesting of
\* the input, and every node it expands has at most 500 keys or 2000
\* elements.
C29_BoundedDescent ==
    GuardCalled =>
        /\ BoundedWalk(guardOut[3], guardOut[1])
        /\ BoundedWalk(guardOut[4], guardOut[2])

\* a value nested 22 levels deep was walked down to a call at depth 21, which
\* returned without looking at its value
C29_Witness ==
    /\ GuardCalled
    /\ Deepest(body[1], 0) >= 22
    /\ \E i \in DOMAIN guardOut[3].calls :
          /\ guardOut[3].calls[i].depth = 21
          /\ ~guardOut[3].calls[i].inspected
    /\ \E i \in DOMAIN guardOut[4].calls : guardOut[4].calls[i].depth = 21

\* the stages at which the current POST can fail
DeclaredTooLarge ==
    req.header.numeric /\ ContentLength(req.header) > MAX_PAYLOAD_SIZE

ParsingFailed == Len(steps) >= 3 /\ Decoded(req, bytesRead) # "json"

ComplexityFailed == body # <<>> /\ ~validate_json_complexity(body[1], 0).valid

ShapeFailed == body # <<>> /\ ~ComplexityFailed /\ NotWellShaped(body[1])

\* an exception reached the except clause of do_POST
ReachedOuterHandler ==
    \E i \in DOMAIN log : log[i].context = <<"HTTP POST request handling">>

\* C30: the HTTP status of a POST response is determined by the stage that
\* ended the request: 413 exactly when the declared size exceeds the limit,
\* 400 exactly when JSON parsing, complexity validation or shape validation
\* failed, 500 exactly when an exception reached the outer handler, with
\* code -32603, the sanitized message and id null, and 200 exactly when the
\* dispatcher was reached and returned; one response is written per request.
C30_StatusByStage ==
    Answered =>
        LET status == responses[1].status
        IN  /\ Len(responses) = 1
            /\ status \in {200, 400, 413, 500}
            /\ status = 413 <=> DeclaredTooLarge
            /\ status = 400 <=> (ParsingFailed \/ ComplexityFailed \/ ShapeFailed)
            /\ status = 500 <=> ReachedOuterHandler
            /\ status = 500 =>
                  /\ IsError(responses[1].envelope)
                  /\ responses[1].envelope.error.code = -32603
                  /\ responses[1].envelope.error.message[1]
                        = "An internal error occurred. Error ID: "
                  /\ responses[1].envelope.id = JNull
            /\ status = 200 <=> (steps = StepOrder /\ Len(ret) = 1)
            /\ status = 200 => responses[1].envelope = ret[1]

====
